---------------------------- MODULE Spec2Model ----------------------------
(***************************************************************************)
(* A model of TSParser.py: the MPEG-2 transport stream scanner parseTSMain *)
(* and the decoders it calls.  All decoders are operators over the byte    *)
(* source that read exactly the offsets the code reads and do the          *)
(* arithmetic the code does.                                               *)
(*                                                                         *)
(* The code runs under Python 3 (it imports tkinter) and Main opens the    *)
(* file in binary mode, so filehandle.read returns bytes.  The test        *)
(* string == '' in readFile therefore never succeeds, and a read that      *)
(* finds too few bytes ends in struct.unpack raising struct.error, which   *)
(* is not an IOError.                                                      *)
(***************************************************************************)
EXTENDS Integers, Sequences, FiniteSets, TLC

VARIABLES
    file,                   \* the stream behind filehandle
    packet_size,            \* arguments of parseTSMain
    mode,
    pid,
    psi_mode,
    searchItem,
    n,                      \* offset of the current packet
    packetCount,
    EntryPESPacketNumList,  \* run lengths
    TPIList,                \* entry points
    PTSList,                \* entry PTS (PTS_MSB24)
    PIDList,                \* PIDs seen in "unique" mode
    idr_flag,
    last_SameES_packetNo,
    last_EntryTPI,
    PCR,                    \* the SystemClock object
    PESPktInfo,             \* the PESPacketInfo object
    pc,                     \* position of parseTSMain
    closed,                 \* filehandle.close() has been called
    log,                    \* the lines written by logging.info, in order
    last                    \* what the last loop iteration did

vars == <<file, packet_size, mode, pid, psi_mode, searchItem, n, packetCount,
          EntryPESPacketNumList, TPIList, PTSList, PIDList, idr_flag,
          last_SameES_packetNo, last_EntryTPI, PCR, PESPktInfo, pc, closed,
          log, last>>

inputs == <<file, packet_size, mode, pid, psi_mode, searchItem>>

---------------------------------------------------------------------------
(* Numbers.  Python's integers are unbounded and the code handles values   *)
(* of 32 and 33 bits; TLC's integers end at 2^31 - 1.  Every number read   *)
(* from the stream, and every number computed from one that can need more  *)
(* than 31 bits, is therefore held as a pair <<high, low>> that stands for *)
(* high * 2^16 + low, with low in 0..65535.                                *)

Pow2(k) == 2 ^ k

Limb == Pow2(16)

\* the pair for a number below 2^31
W(v) == << v \div Limb, v % Limb >>

\* the number for a pair that stands for less than 2^31
Num(x) == x[1] * Limb + x[2]

\* (x >> k), a number below 2^31
Shr(x, k) ==
    IF k >= 16 THEN x[1] \div Pow2(k - 16)
    ELSE x[1] * Pow2(16 - k) + (x[2] \div Pow2(k))

\* (x >> k) & (2^w - 1), for w <= 30
Bits(x, k, w) ==
    IF k >= 16 THEN (x[1] \div Pow2(k - 16)) % Pow2(w)
    ELSE IF w <= 16 - k THEN (x[2] \div Pow2(k)) % Pow2(w)
    ELSE (x[1] % Pow2(w - (16 - k))) * Pow2(16 - k) + (x[2] \div Pow2(k))

\* x & (2^w - 1)
Low(x, w) == Bits(x, 0, w)

\* (v >> k) & (2^w - 1) for a number v below 2^31
NumBits(v, k, w) == (v \div Pow2(k)) % Pow2(w)

\* x + y
WAdd(x, y) == << x[1] + y[1] + ((x[2] + y[2]) \div Limb), (x[2] + y[2]) % Limb >>

\* (v << k) for a number v below 2^16
WShl(v, k) ==
    IF k >= 16 THEN << v * Pow2(k - 16), 0 >>
    ELSE << (v * Pow2(k)) \div Limb, (v * Pow2(k)) % Limb >>

\* (x << 1) + b for a pair x
WDoublePlus(x, b) == << x[1] * 2 + ((x[2] * 2 + b) \div Limb), (x[2] * 2 + b) % Limb >>

---------------------------------------------------------------------------
(* The byte source.  A stream is a sequence of 188-byte transport packets, *)
(* possibly cut short inside the last one.  The variable  file  holds the  *)
(* names of the packets and the length in bytes; the bytes are those of    *)
(* the named packets, which are laid out here once.                        *)

TSPacketSize == 188

PidA == 256
PidB == 257

Fill(k) == [i \in 1..k |-> 255]

\* a transport packet: 4 header bytes, the body, stuffing up to 188 bytes
TSPacket(sync, pusi, pidv, afc, body) ==
    << sync, pusi * 64 + (pidv \div 256), pidv % 256, afc * 16 >>
    \o body \o Fill(TSPacketSize - 4 - Len(body))

\* pointer_field 0, then a PAT section with two entries: program 0 (the
\* network PID 0x10) and program 1 (PMT on PidA)
PATPacket(pidv) ==
    TSPacket(71, 1, pidv, 1,
             << 0,  0, 176, 17,  0, 1,  193, 0, 0,
                0, 0, 224, 16,   0, 1, 224 + (PidA \div 256), PidA % 256,
                1, 2, 3, 4 >>)

\* a PMT section: one program descriptor (6 bytes), one stream with one
\* ES descriptor (6 bytes)
PMTPacket(pidv) ==
    TSPacket(71, 1, pidv, 1,
             << 0,  2, 176, 30,  0, 1,  193, 0, 0,
                224 + (PidA \div 256), PidA % 256,  240, 6,
                5, 4, 72, 68, 77, 86,
                27, 224 + (PidA \div 256), PidA % 256, 240, 6,
                40, 4, 100, 0, 40, 63,
                1, 2, 3, 4 >>)

\* a SIT section: no transmission descriptors, one service with one
\* descriptor (3 bytes)
SITPacket(pidv) ==
    TSPacket(71, 1, pidv, 1,
             << 0,  127, 240, 18,  255, 255,  193, 0, 0,  240, 0,
                0, 7, 128 + 64, 3,   99, 1, 0,
                1, 2, 3, 4 >>)

\* a PES start: stream_id 0xE0, the given PTS_DTS_flag, one or two
\* timestamps, then an access unit delimiter with the given primary_pic_type
PESPacket(pidv, flag, ppt) ==
    LET ts1 == << 49, 128, 1, 4, 1 >>
        ts2 == << 17, 0, 3, 0, 9 >>
        tsb == IF flag = 2 THEN ts1 ELSE IF flag = 3 THEN ts1 \o ts2 ELSE <<>>
    IN  TSPacket(71, 1, pidv, 1,
                 << 0, 0, 1, 224,  0, 0,  128, flag * 64, Len(tsb) >> \o tsb
                 \o << 0, 0, 0, 1, 9, ppt * 32 + 16 >>)

\* payload that starts no unit
ContinuationPacket(pidv) == TSPacket(71, 0, pidv, 1, << 1, 2, 3, 4 >>)

\* adaptation field only, carrying a PCR, discontinuity set
PCRPacket(pidv) ==
    TSPacket(71, 0, pidv, 2, << 7, 128 + 16, 255, 255, 255, 255, 255, 255 >>)

\* an adaptation field carrying another PCR, no discontinuity, and a
\* payload after it
PCRPayloadPacket(pidv) ==
    TSPacket(71, 0, pidv, 3, << 7, 16, 128, 0, 255, 255, 128, 5,  1, 2, 3, 4 >>)

\* an adaptation field of length 0; the byte after it looks like flags
EmptyAFPacket(pidv) == TSPacket(71, 0, pidv, 2, << 0, 128 + 16 >>)

\* an adaptation field without a PCR, discontinuity set, then a payload
NoPCRPacket(pidv) == TSPacket(71, 0, pidv, 3, << 1, 128,  1, 2, 3, 4 >>)

\* no adaptation field; the payload looks like one that carries a PCR
LookalikePacket(pidv) ==
    TSPacket(71, 0, pidv, 1, << 7, 128 + 16, 255, 255, 255, 255, 255, 255 >>)

\* a packet whose bytes after the adaptation field af are the start of a
\* PES packet with a PTS and an IDR access unit delimiter
StartPacket(pusi, pidv, afc, af) ==
    TSPacket(71, pusi, pidv, afc,
             af \o << 0, 0, 1, 224,  0, 0,  128, 128, 5,  49, 128, 1, 4, 1,
                      0, 0, 0, 1, 9, 16 >>)

\* an adaptation field, then a section of a table that has no decoder
OtherTablePacket(pidv) ==
    TSPacket(71, 1, pidv, 3, << 1, 0,  0,  66, 240, 0 >>)

\* an adaptation field that announces 255 bytes, more than the packet has
LongAFPacket(pidv) == TSPacket(71, 1, pidv, 3, << 255, 0 >>)

BadSyncPacket == TSPacket(0, 0, 8191, 1, <<>>)

PacketBytes ==
    [ name \in { "IDR", "NON", "NOTS", "CONT", "PCR", "BAD",
                 "PAT", "PMTA", "PMTB", "SITA", "SITB",
                 "PCR3", "AF0", "NOPCR", "LOOK",
                 "PESB", "PES0", "AFPES", "AF2", "AFPSI", "AF255" } |->
        CASE name = "IDR"  -> PESPacket(PidA, 2, 0)
          [] name = "NON"  -> PESPacket(PidA, 3, 1)
          [] name = "NOTS" -> PESPacket(PidA, 0, 0)
          [] name = "CONT" -> ContinuationPacket(PidA)
          [] name = "PCR"  -> PCRPacket(PidA)
          [] name = "BAD"  -> BadSyncPacket
          [] name = "PAT"  -> PATPacket(0)
          [] name = "PMTA" -> PMTPacket(PidA)
          [] name = "PMTB" -> PMTPacket(PidB)
          [] name = "SITA" -> SITPacket(PidA)
          [] name = "SITB" -> SITPacket(PidB)
          [] name = "PCR3" -> PCRPayloadPacket(PidB)
          [] name = "AF0"  -> EmptyAFPacket(PidA)
          [] name = "NOPCR" -> NoPCRPacket(PidA)
          [] name = "LOOK" -> LookalikePacket(PidA)
          [] name = "PESB" -> StartPacket(1, PidB, 1, <<>>)
          [] name = "PES0" -> StartPacket(0, PidA, 1, <<>>)
          [] name = "AFPES" -> StartPacket(1, PidA, 3, << 1, 0 >>)
          [] name = "AF2"  -> StartPacket(1, PidA, 2, << 0 >>)
          [] name = "AFPSI" -> OtherTablePacket(PidB)
          [] name = "AF255" -> LongAFPacket(PidA) ]

ESPalette == { "IDR", "NON", "NOTS", "CONT", "PCR", "BAD" }

PSIPalette == { "PAT", "PMTA", "PMTB", "SITA", "SITB" }

\* packets with and without an adaptation field, with and without a PCR
PCRPalette == { "PCR", "PCR3", "AF0", "NOPCR", "LOOK", "IDR", "PAT", "BAD" }

\* PES start codes on and off the target PID, with and without the start
\* indicator, after an adaptation field, in a packet without payload
DispatchPalette ==
    { "IDR", "PESB", "PES0", "AFPES", "AF2", "AFPSI", "AF255", "PAT", "CONT", "BAD" }

\* the longest streams, in packets
MaxESPackets == 4
MaxPSIPackets == 3
MaxPCRPackets == 3
MaxDispatchPackets == 3
MaxUnitPackets == 3
MaxLivePackets == 2

\* the sequences of at most k packets
RECURSIVE PacketSeqs(_, _)
PacketSeqs(palette, k) ==
    IF k = 0 THEN { <<>> }
    ELSE LET shorter == PacketSeqs(palette, k - 1)
         IN  shorter \cup { Append(f, p) : f \in { g \in shorter : Len(g) = k - 1 },
                                           p \in palette }

\* the packet sizes scanned: plain, with a 4-byte prefix, with 16 bytes
\* after the packet
UnitSizes == { << 188, 0 >>, << 192, 4 >>, << 204, 0 >> }

\* the bytes of a unit: u[2] bytes of 0, the transport packet, and 0 up to
\* the end of the u[1] bytes
UnitBytes ==
    [ u \in UnitSizes |->
        [ name \in DOMAIN PacketBytes |->
            [ i \in 1..u[1] |-> IF i - u[2] \in 1..TSPacketSize
                                 THEN PacketBytes[name][i - u[2]]
                                 ELSE 0 ] ] ]

\* the bytes of the units of the packets ps, one after the other
RECURSIVE UnitsBytes(_, _)
UnitsBytes(ps, u) ==
    IF ps = <<>> THEN <<>> ELSE UnitBytes[u][Head(ps)] \o UnitsBytes(Tail(ps), u)

\* a stream of units of unit bytes, the last unit cut after its first keep
\* bytes: bytes holds what the units hold, len is the length of the file
Units(ps, unit, lead, keep) ==
    [packets |-> ps, unit |-> unit, lead |-> lead,
     len |-> IF ps = <<>> THEN 0 ELSE (Len(ps) - 1) * unit + keep,
     bytes |-> UnitsBytes(ps, << unit, lead >>)]

\* a stream of whole packets
Whole(ps) == Units(ps, TSPacketSize, 0, TSPacketSize)

\* a stream whose last packet is cut after its first keep bytes
Cut(ps, keep) == Units(ps, TSPacketSize, 0, keep)

\* where a last packet is cut: inside the header, inside the section or
\* PES header, inside the classifier's lookahead
HeaderCut == 2
SectionCut == 18
LookaheadCut == 60
AdaptationCut == 8

Streams(palette, k, cuts) ==
    { Whole(ps) : ps \in PacketSeqs(palette, k) }
    \cup { Cut(ps, keep) : ps \in PacketSeqs(palette, k) \ { <<>> }, keep \in cuts }

FileLen(f) == f.len

\* the byte at offset i (from 0) of a stream
ByteAt(f, i) == f.bytes[i + 1]

Modes == { "PAT", "PMT", "SIT", "ES" }
SearchItems == { "FFF", "PAT", "PMT", "PCR", "SIT" }
PsiModes == { 0, 1, 2 }

ESInputs ==
    [ file : Streams(ESPalette, MaxESPackets, { HeaderCut, SectionCut, LookaheadCut }),
      packet_size : { TSPacketSize }, mode : { "ES" }, pid : { PidA },
      psi_mode : { 0 }, searchItem : { "FFF", "PCR" } ]

PSIInputs ==
    [ file : Streams(PSIPalette, MaxPSIPackets, { HeaderCut, SectionCut }),
      packet_size : { TSPacketSize }, mode : Modes, pid : { PidA },
      psi_mode : PsiModes, searchItem : SearchItems ]

UnitInputs ==
    { [file |-> Units(ps, u[1], u[2], IF whole THEN u[1] ELSE HeaderCut),
       packet_size |-> u[1], mode |-> m,
       pid |-> PidA, psi_mode |-> pm, searchItem |-> si] :
        ps \in PacketSeqs({ "PAT", "PMTA", "IDR", "CONT", "BAD" }, MaxUnitPackets),
        u \in UnitSizes, whole \in BOOLEAN,
        m \in { "ES", "PAT" }, pm \in { 0, 2 }, si \in { "FFF", "PAT", "PMT" } }

\* fewer streams, of the same packet sizes, scanned for an elementary
\* stream, for the first PAT, for the unique PATs, for every PMT and for
\* the unique PMTs
LiveInputs ==
    { [file |-> Units(ps, u[1], u[2], IF whole THEN u[1] ELSE HeaderCut),
       packet_size |-> u[1], mode |-> c[1], pid |-> PidA, psi_mode |-> c[2],
       searchItem |-> c[3]] :
        ps \in PacketSeqs({ "PAT", "PMTA", "IDR", "CONT", "BAD" }, MaxLivePackets),
        u \in UnitSizes, whole \in BOOLEAN,
        c \in { << "ES", 0, "FFF" >>, << "PAT", 0, "FFF" >>, << "PAT", 2, "PAT" >>,
                 << "PMT", 1, "FFF" >>, << "PMT", 2, "PMT" >> } }

DispatchInputs ==
    [ file : Streams(DispatchPalette, MaxDispatchPackets, { HeaderCut, AdaptationCut }),
      packet_size : { TSPacketSize }, mode : { "ES", "PAT" }, pid : { PidA },
      psi_mode : { 0 }, searchItem : { "FFF" } ]

PCRInputs ==
    [ file : Streams(PCRPalette, MaxPCRPackets, { HeaderCut, AdaptationCut }),
      packet_size : { TSPacketSize }, mode : { "ES" }, pid : { PidA },
      psi_mode : { 0 }, searchItem : { "FFF", "PCR" } ]

---------------------------------------------------------------------------
(* readFile                                                                *)

\* the outcome of struct.unpack on a string that is too short
struct_error == << -1, -1 >>

\* struct.unpack('>B'), ('>H'), ('>L')
BigEndian(f, pos, width) ==
    CASE width = 1 -> << 0, ByteAt(f, pos) >>
      [] width = 2 -> << 0, ByteAt(f, pos) * 256 + ByteAt(f, pos + 1) >>
      [] width = 4 -> << ByteAt(f, pos) * 256 + ByteAt(f, pos + 1),
                         ByteAt(f, pos + 2) * 256 + ByteAt(f, pos + 3) >>

\* seek(startPos); read(width); unpack.  read returns the bytes that remain,
\* at most width of them; unpack raises struct.error unless there are width.
readFile(f, startPos, width) ==
    IF startPos + width <= FileLen(f)
    THEN BigEndian(f, startPos, width)
    ELSE struct_error

\* lines 60, 65, 70: string == '' with string a bytes object (Main opens
\* the file 'rb'); bytes and str never compare equal, whatever was read
EqualsEmptyStr(f, startPos, width) == FALSE

\* how a call of readFile ends: a value returned, IOError raised by lines
\* 61, 66, 71, or struct.error raised by unpack
readFileOutcome(f, startPos, width) ==
    IF EqualsEmptyStr(f, startPos, width) THEN "IOError"
    ELSE IF readFile(f, startPos, width) = struct_error THEN "struct.error"
    ELSE "value"

---------------------------------------------------------------------------
(* parseAdaptation_Field                                                   *)
(*                                                                         *)
(* Each decoder is written as the reads it issues, handed to an operator   *)
(* that holds its control flow; a read whose statement is not reached is   *)
(* not looked at.                                                          *)

NewSystemClock == [PCR_base_hi |-> 0, PCR_base_lo |-> W(0), PCR_extension |-> 0]

\* a plausible slip: PCR_base_lo truncated to 32 bits
setPCR_trunc32(hi, lo, ext) ==
    [PCR_base_hi |-> hi, PCR_base_lo |-> << lo[1] % Limb, lo[2] >>,
     PCR_extension |-> ext]

setPCR(hi, lo, ext) == [PCR_base_hi |-> hi, PCR_base_lo |-> lo, PCR_extension |-> ext]

\* the result of parseAdaptation_Field before anything is decoded
NoAF == [raised |-> FALSE, length |-> 0, flags |-> 0, PCR |-> NewSystemClock]

\* lines 77-88.  Result: raised, the returned pair (length, flags) and the
\* clock object.
AdaptationFieldFrom(clock, adaptation_field_length, flags, PCR1, PCR2) ==
    LET Raised == [raised |-> TRUE, length |-> 0, flags |-> 0, PCR |-> clock]
    IN  IF adaptation_field_length = struct_error THEN Raised
        ELSE IF Num(adaptation_field_length) > 0
        THEN IF flags = struct_error THEN Raised
             ELSE IF Bits(flags, 4, 1) = 1
             THEN IF PCR1 = struct_error \/ PCR2 = struct_error THEN Raised
                  ELSE [raised |-> FALSE,
                        length |-> Num(adaptation_field_length) + 1,
                        flags  |-> Num(flags),
                        PCR    |-> setPCR(Bits(PCR1, 31, 1),
                                          WDoublePlus(PCR1, Bits(PCR2, 15, 1)),
                                          Low(PCR2, 9))]
             ELSE [raised |-> FALSE, length |-> Num(adaptation_field_length) + 1,
                   flags |-> Num(flags), PCR |-> clock]
        ELSE [raised |-> FALSE, length |-> Num(adaptation_field_length) + 1,
              flags |-> 0, PCR |-> clock]

parseAdaptation_Field(f, startPos, clock) ==
    AdaptationFieldFrom(clock,
                        readFile(f, startPos, 1),
                        readFile(f, startPos + 1, 1),
                        readFile(f, startPos + 2, 4),
                        readFile(f, startPos + 6, 2))

---------------------------------------------------------------------------
(* getPTS, parseIndividualPESPayload, parsePESHeader                       *)

\* a plausible slip: the marker bit of the last word not shifted out
PTSFrom_withMarker(time1, time2, time3) ==
    IF time1 = struct_error \/ time2 = struct_error \/ time3 = struct_error
    THEN [raised |-> TRUE, PTS_hi |-> 0, PTS_low |-> W(0)]
    ELSE [raised |-> FALSE,
          PTS_hi  |-> Bits(time1, 3, 1),
          PTS_low |-> WAdd(WAdd(WShl(Bits(time1, 1, 2), 30),
                                WShl(Bits(time2, 1, 15), 15)),
                           W(Bits(time3, 0, 15)))]

\* lines 95-100
PTSFrom(time1, time2, time3) ==
    IF time1 = struct_error \/ time2 = struct_error \/ time3 = struct_error
    THEN [raised |-> TRUE, PTS_hi |-> 0, PTS_low |-> W(0)]
    ELSE [raised |-> FALSE,
          PTS_hi  |-> Bits(time1, 3, 1),
          PTS_low |-> WAdd(WAdd(WShl(Bits(time1, 1, 2), 30),
                                WShl(Bits(time2, 1, 15), 15)),
                           W(Bits(time3, 1, 15)))]

\* Result: raised, PTS_hi, PTS_low.
getPTS(f, startPos) ==
    PTSFrom(readFile(f, startPos, 1),
            readFile(f, startPos + 1, 2),
            readFile(f, startPos + 3, 2))

\* the length of the lookahead of parseIndividualPESPayload
MaxLookahead == 100

\* the search ends on a window that cannot be read (unpack raises) or
\* that holds the prefix 0x000001 (lines 111-117)
StopsAt(local) == local = struct_error \/ Shr(local, 8) = 1

\* the offset of the first window, from offset k on, at which the while
\* loop of lines 110-117 ends; MaxLookahead + 1 when k > 100 ends it
FirstStop(f, startPos, k) ==
    CHOOSE j \in k..(MaxLookahead + 1) :
        /\ j > MaxLookahead \/ StopsAt(readFile(f, startPos + j, 4))
        /\ \A i \in k..(j - 1) : ~ StopsAt(readFile(f, startPos + i, 4))

\* how the loop ends at offset first, local the window read there
EndsAt(first, local) ==
    IF first > MaxLookahead
    THEN [out |-> "unknown", k |-> first, local |-> W(0)]
    ELSE IF local = struct_error
    THEN [out |-> "raised", k |-> first, local |-> W(0)]
    ELSE [out |-> "found", k |-> first, local |-> local]

WindowAt(f, startPos, first) == EndsAt(first, readFile(f, startPos + first, 4))

\* The while loop of lines 110-117, entered with the window at offset k:
\* the windows are read and tested in turn, and k > 100 ends the search
\* after the window at offset 100.  Result: the outcome ("raised",
\* "unknown", "found"), k and the window.
FindStartCode(f, startPos, k) == WindowAt(f, startPos, FirstStop(f, startPos, k))

\* a plausible slip: the NAL type of the start code found not tested
ClassifyFrom_anyNAL(s, primary_pic_type) ==
    IF s.out = "raised" THEN [raised |-> TRUE, auType |-> "None"]
    ELSE IF s.out = "unknown" THEN [raised |-> FALSE, auType |-> "Unknown AU type"]
    ELSE IF primary_pic_type = struct_error THEN [raised |-> TRUE, auType |-> "None"]
    ELSE IF Bits(primary_pic_type, 5, 3) = 0
    THEN [raised |-> FALSE, auType |-> "IDR_picture"]
    ELSE [raised |-> FALSE, auType |-> "non_IDR_picture"]

\* lines 119-125, after the loop ended as s; primary_pic_type is the read
\* of line 120.  "None" is Python's None, returned when the start code
\* found is not an access unit delimiter.
ClassifyFrom(s, primary_pic_type) ==
    IF s.out = "raised" THEN [raised |-> TRUE, auType |-> "None"]
    ELSE IF s.out = "unknown" THEN [raised |-> FALSE, auType |-> "Unknown AU type"]
    ELSE IF Low(s.local, 5) = 9
    THEN IF primary_pic_type = struct_error THEN [raised |-> TRUE, auType |-> "None"]
         ELSE IF Bits(primary_pic_type, 5, 3) = 0
              THEN [raised |-> FALSE, auType |-> "IDR_picture"]
              ELSE [raised |-> FALSE, auType |-> "non_IDR_picture"]
    ELSE [raised |-> FALSE, auType |-> "None"]

ClassifyAt(f, startPos, s) ==
    ClassifyFrom(s, readFile(f, startPos + s.k + 4, 1))

\* Result: raised and the returned value.
parseIndividualPESPayload(f, startPos) ==
    ClassifyAt(f, startPos, FindStartCode(f, startPos, 0))

NewPESPacketInfo == [PTS_hi |-> 0, PTS_lo |-> W(0), streamID |-> 0, AUType |-> ""]

SystemStreamIDs == {188, 190, 240, 241, 255, 249, 248}

\* a plausible slip: the flag taken from bits 7..6 of the 4-byte field
PTS_DTS_flag_of_wrongbits(PES_packet_flags) == Bits(PES_packet_flags, 6, 2)

\* line 144
PTS_DTS_flag_of(PES_packet_flags) == Bits(PES_packet_flags, 14, 2)

\* the result of parsePESHeader before anything is decoded
NoPES == [raised |-> FALSE, info |-> NewPESPacketInfo, system |-> FALSE,
          PTS_DTS_flag |-> 0, PES_header_data_length |-> 0,
          hasPTS |-> FALSE, hasDTS |-> FALSE,
          PTS |-> <<0, W(0)>>, DTS |-> <<0, W(0)>>, classified |-> FALSE]

\* lines 149-166, with the PTS_DTS_flag and the header data length known.
\* pts and dts are the calls of getPTS at n+9 and n+14, au the call of
\* parseIndividualPESPayload at n+k.
PESTimestampsFrom(hdr, pts, dts, au) ==
    LET withPTS == [hdr EXCEPT !.info.PTS_hi = pts.PTS_hi,
                               !.info.PTS_lo = pts.PTS_low,
                               !.hasPTS = TRUE,
                               !.PTS = <<pts.PTS_hi, pts.PTS_low>>]
        withDTS == [withPTS EXCEPT !.hasDTS = TRUE,
                                   !.DTS = <<dts.PTS_hi, dts.PTS_low>>]
    IN  IF hdr.PTS_DTS_flag = 2
        THEN IF pts.raised THEN [hdr EXCEPT !.raised = TRUE]
             ELSE IF au.raised THEN [withPTS EXCEPT !.raised = TRUE]
             ELSE [withPTS EXCEPT !.info.AUType = au.auType, !.classified = TRUE]
        ELSE IF hdr.PTS_DTS_flag = 3
        THEN IF pts.raised THEN [hdr EXCEPT !.raised = TRUE]
             ELSE IF dts.raised THEN [withPTS EXCEPT !.raised = TRUE]
             ELSE IF au.raised THEN [withDTS EXCEPT !.raised = TRUE]
             ELSE [withDTS EXCEPT !.info.AUType = au.auType, !.classified = TRUE]
        ELSE hdr

\* lines 129-147.  Result: raised, the PESPacketInfo object after the
\* call, and the locals of the call: the flag, the header data length,
\* whether a PTS and a DTS were decoded and their values (the DTS is
\* decoded and dropped), and whether the payload was classified.
PESHeaderFrom(info, stream_ID, PES_packetLength, PES_packet_flags, pts, dts, au) ==
    IF stream_ID = struct_error \/ PES_packetLength = struct_error
    THEN [NoPES EXCEPT !.raised = TRUE, !.info = info]
    ELSE IF Num(stream_ID) \in SystemStreamIDs
    THEN [NoPES EXCEPT !.info = [info EXCEPT !.streamID = Num(stream_ID)],
                       !.system = TRUE]
    ELSE IF PES_packet_flags = struct_error
    THEN [NoPES EXCEPT !.raised = TRUE,
                       !.info = [info EXCEPT !.streamID = Num(stream_ID)]]
    ELSE PESTimestampsFrom(
             [NoPES EXCEPT !.info = [info EXCEPT !.streamID = Num(stream_ID)],
                           !.PTS_DTS_flag = PTS_DTS_flag_of(PES_packet_flags),
                           !.PES_header_data_length = Low(PES_packet_flags, 8)],
             pts, dts, au)

\* the offset k of line 147 for the 4-byte field read at n+5
PayloadOffset(PES_packet_flags) ==
    IF PES_packet_flags = struct_error THEN 0
    ELSE 6 + Low(PES_packet_flags, 8) + 3

parsePESHeader(f, startPos, info) ==
    PESHeaderFrom(info,
                  readFile(f, startPos + 3, 1),
                  readFile(f, startPos + 4, 2),
                  readFile(f, startPos + 5, 4),
                  getPTS(f, startPos + 9),
                  getPTS(f, startPos + 14),
                  parseIndividualPESPayload(
                      f, startPos + PayloadOffset(readFile(f, startPos + 5, 4))))

---------------------------------------------------------------------------
(* The section decoders.  Each returns whether it raised and the lines it  *)
(* logged before returning or raising.                                     *)

\* one logging.info line: a tag, its integer arguments, a string argument
Line(tag, vals, str) == [line |-> tag, v |-> vals, s |-> str]

\* a plausible slip: every entry reported as a program map PID
PATEntryLines_noNetwork(local) ==
    << Line("program_number", << Shr(local, 16) >>, ""),
       Line("program_map_PID", << Low(local, 13) >>, ""),
       Line("", <<>>, "") >>

\* lines 195-205: one entry of the PAT loop, read as local
PATEntryLines(local) ==
    << Line("program_number", << Shr(local, 16) >>, ""),
       IF Shr(local, 16) = 0
       THEN Line("network_PID", << Low(local, 13) >>, "")
       ELSE Line("program_map_PID", << Low(local, 13) >>, ""),
       Line("", <<>>, "") >>

\* while (length > 0) of parsePATSection
RECURSIVE PATLoop(_, _, _)
PATLoop(f, j, length) ==
    IF length > 0
    THEN IF readFile(f, j, 4) = struct_error
         THEN [raised |-> TRUE, lines |-> <<>>]
         ELSE [PATLoop(f, j + 4, length - 4) EXCEPT
                   !.lines = PATEntryLines(readFile(f, j, 4)) \o @]
    ELSE [raised |-> FALSE, lines |-> <<>>]

\* lines 170-190; loop is the while loop of lines 193-205
PATSectionFrom(local, local2, loop) ==
    LET head  == << Line("PAT Information", <<>>, ""),
                    Line("section_length", << Bits(local, 8, 12) >>, "") >>
    IN  IF local = struct_error THEN [raised |-> TRUE, lines |-> <<>>]
        ELSE IF Shr(local, 24) # 0
        THEN [raised |-> FALSE, lines |-> << Line("Ooops", <<>>, "parsePATSection") >>]
        ELSE IF local2 = struct_error THEN [raised |-> TRUE, lines |-> head]
        ELSE [loop EXCEPT
                !.lines = head
                          \o << Line("section_number",
                                     << Bits(local2, 8, 8), Low(local2, 8) >>, "") >>
                          \o @]

\* the section_length of the 4-byte field at the start of a section
SectionLength(local) == IF local = struct_error THEN 0 ELSE Bits(local, 8, 12)

parsePATSection(f, k) ==
    PATSectionFrom(readFile(f, k, 4),
                   readFile(f, k + 4, 4),
                   PATLoop(f, k + 8, SectionLength(readFile(f, k, 4)) - 4 - 5))

\* a plausible slip: a descriptor taken to be one byte longer
DescriptorLength_plusOne(descriptor_length) ==
    IF descriptor_length = struct_error THEN 0 ELSE Num(descriptor_length) + 1

\* the length byte of a descriptor, 0 if it cannot be read
DescriptorLength(descriptor_length) ==
    IF descriptor_length = struct_error THEN 0 ELSE Num(descriptor_length)

\* while (n > 0) over a descriptor loop that starts at m with nleft
\* announced bytes (lines 243-248, 264-269, 300-305, 318-323).  Result:
\* raised, the lines, and the cursor m after the loop.
RECURSIVE DescriptorLoop(_, _, _)
DescriptorLoop(f, m, nleft) ==
    IF nleft > 0
    THEN IF readFile(f, m, 1) = struct_error \/ readFile(f, m + 1, 1) = struct_error
         THEN [raised |-> TRUE, lines |-> <<>>, m |-> m]
         ELSE [DescriptorLoop(f, m + DescriptorLength(readFile(f, m + 1, 1)) + 2,
                              nleft - (DescriptorLength(readFile(f, m + 1, 1)) + 2))
               EXCEPT !.lines = << Line("descriptor",
                                        << Num(readFile(f, m, 1)),
                                           Num(readFile(f, m + 1, 1)) >>, "") >>
                                \o @]
    ELSE [raised |-> FALSE, lines |-> <<>>, m |-> m]

\* a 12-bit loop length in the low bits of a field, 0 if it cannot be read
LoopLength(local) == IF local = struct_error THEN 0 ELSE Low(local, 12)

\* a descriptor loop of parsePMTSection with where it starts (m = ...)
\* and the length it is given (n = ...): lines 241-248, 262-269
DescriptorLoopFrom(f, m, nleft) ==
    [start |-> m, length |-> nleft] @@ DescriptorLoop(f, m, nleft)

\* what is kept of a descriptor loop: start, given length, cursor after it
LoopOf(desc) == [start |-> desc.start, length |-> desc.length, m |-> desc.m]

\* lines 254-273: one stream entry read as local1, local2, its descriptor
\* loop, and the entries after it.  Result: raised, the lines, and the
\* descriptor loops gone through.
PMTEntryFrom(local1, local2, desc, rest) ==
    LET entry == << Line("stream", << Num(local1), Bits(local2, 16, 13),
                                      Low(local2, 12) >>, "") >>
    IN  IF local1 = struct_error \/ local2 = struct_error
        THEN [raised |-> TRUE, lines |-> <<>>, loops |-> <<>>]
        ELSE IF desc.raised
        THEN [raised |-> TRUE, lines |-> entry \o desc.lines, loops |-> << LoopOf(desc) >>]
        ELSE [rest EXCEPT !.lines = entry \o desc.lines \o @,
                          !.loops = << LoopOf(desc) >> \o @]

\* while (length > 0) of parsePMTSection
RECURSIVE PMTLoop(_, _, _)
PMTLoop(f, j, length) ==
    IF length > 0
    THEN PMTEntryFrom(readFile(f, j, 1),
                      readFile(f, j + 1, 4),
                      DescriptorLoopFrom(f, j + 5, LoopLength(readFile(f, j + 1, 4))),
                      PMTLoop(f, j + 5 + LoopLength(readFile(f, j + 1, 4)),
                              length - (5 + LoopLength(readFile(f, j + 1, 4)))))
    ELSE [raised |-> FALSE, lines |-> <<>>, loops |-> <<>>]

\* lines 209-275; desc is the program descriptor loop, loop the stream loop
PMTSectionFrom(local, local2, local3, desc, loop) ==
    LET head  == << Line("PMT Information", <<>>, ""),
                    Line("section_length", << Bits(local, 8, 12) >>, "") >>
        head2 == head \o << Line("program_number",
                                 << Low(local, 8) * 256 + Bits(local2, 24, 8) >>, ""),
                            Line("section_number",
                                 << Bits(local2, 8, 8), Low(local2, 8) >>, "") >>
        head3 == head2 \o << Line("PCR_PID", << Bits(local3, 16, 13) >>, ""),
                             Line("program_info_length", << Low(local3, 12) >>, "") >>
    IN  IF local = struct_error THEN [raised |-> TRUE, lines |-> <<>>, loops |-> <<>>]
        ELSE IF Shr(local, 24) # 2
        THEN [raised |-> FALSE, lines |-> << Line("Ooops", <<>>, "parsePATSection") >>,
              loops |-> <<>>]
        ELSE IF local2 = struct_error THEN [raised |-> TRUE, lines |-> head, loops |-> <<>>]
        ELSE IF local3 = struct_error THEN [raised |-> TRUE, lines |-> head2, loops |-> <<>>]
        ELSE IF desc.raised
        THEN [raised |-> TRUE, lines |-> head3 \o desc.lines, loops |-> << LoopOf(desc) >>]
        ELSE IF loop.raised
        THEN [raised |-> TRUE, lines |-> head3 \o desc.lines \o loop.lines,
              loops |-> << LoopOf(desc) >> \o loop.loops]
        ELSE [raised |-> FALSE,
              lines  |-> head3 \o desc.lines \o loop.lines \o << Line("", <<>>, "") >>,
              loops  |-> << LoopOf(desc) >> \o loop.loops]

parsePMTSection(f, k) ==
    PMTSectionFrom(readFile(f, k, 4),
                   readFile(f, k + 4, 4),
                   readFile(f, k + 8, 4),
                   DescriptorLoopFrom(f, k + 12, LoopLength(readFile(f, k + 8, 4))),
                   PMTLoop(f, k + 12 + LoopLength(readFile(f, k + 8, 4)),
                           SectionLength(readFile(f, k, 4)) - 4 - 9
                           - LoopLength(readFile(f, k + 8, 4))))

\* lines 311-326: one service entry read as local1, its descriptor loop,
\* and the entries after it
SITEntryFrom(local1, desc, rest) ==
    LET entry == << Line("service", << Bits(local1, 16, 16), Low(local1, 12) >>, "") >>
    IN  IF local1 = struct_error THEN [raised |-> TRUE, lines |-> <<>>]
        ELSE IF desc.raised
        THEN [raised |-> TRUE, lines |-> entry \o desc.lines]
        ELSE [rest EXCEPT !.lines = entry \o desc.lines \o @]

\* while (length > 0) of parseSITSection
RECURSIVE SITLoop(_, _, _)
SITLoop(f, j, length) ==
    IF length > 0
    THEN SITEntryFrom(readFile(f, j, 4),
                      DescriptorLoop(f, j + 4, LoopLength(readFile(f, j, 4))),
                      SITLoop(f, j + 4 + LoopLength(readFile(f, j, 4)),
                              length - (4 + LoopLength(readFile(f, j, 4)))))
    ELSE [raised |-> FALSE, lines |-> <<>>]

\* lines 278-327; desc is the transmission info loop, loop the service loop
SITSectionFrom(local, local2, local3, desc, loop) ==
    LET head  == << Line("SIT Information", <<>>, ""),
                    Line("section_length", << Bits(local, 8, 12) >>, "") >>
        head2 == head \o << Line("section_number",
                                 << Bits(local2, 8, 8), Low(local2, 8) >>, "") >>
        head3 == head2 \o << Line("transmission_info_loop_length",
                                  << Low(local3, 12) >>, "") >>
    IN  IF local = struct_error THEN [raised |-> TRUE, lines |-> <<>>]
        ELSE IF Shr(local, 24) # 127
        THEN [raised |-> FALSE, lines |-> << Line("Ooops", <<>>, "parseSITSection") >>]
        ELSE IF local2 = struct_error THEN [raised |-> TRUE, lines |-> head]
        ELSE IF local3 = struct_error THEN [raised |-> TRUE, lines |-> head2]
        ELSE IF desc.raised THEN [raised |-> TRUE, lines |-> head3 \o desc.lines]
        ELSE IF loop.raised THEN [raised |-> TRUE, lines |-> head3 \o desc.lines \o loop.lines]
        ELSE [raised |-> FALSE,
              lines  |-> head3 \o desc.lines \o loop.lines \o << Line("", <<>>, "") >>]

parseSITSection(f, k) ==
    SITSectionFrom(readFile(f, k, 4),
                   readFile(f, k + 4, 4),
                   readFile(f, k + 8, 2),
                   DescriptorLoop(f, k + 10, LoopLength(readFile(f, k + 8, 2))),
                   SITLoop(f, k + 10 + LoopLength(readFile(f, k + 8, 2)),
                           SectionLength(readFile(f, k, 4)) - 4 - 7
                           - LoopLength(readFile(f, k + 8, 2))))

---------------------------------------------------------------------------
(* parseTSMain: the fields of the 4-byte packet header (lines 369-382).    *)

\* The packet ceiling of line 519.  The code's value is 1450000; the model
\* scans streams of a few packets, so the ceiling is scaled down with them.
PacketLimit == 2

PACKET_SYNC_BYTE == 71

\* a plausible slip: the sync byte taken from the second header byte
syncByte_of_byte1(PacketHeader) == Bits(PacketHeader, 16, 8)

syncByte_of(PacketHeader) == Shr(PacketHeader, 24)

payload_unit_start_indicator_of(PacketHeader) == Bits(PacketHeader, 22, 1)

\* a plausible slip: only the low byte of the PID kept
PID_of_lowByte(PacketHeader) == Bits(PacketHeader, 8, 8)

PID_of(PacketHeader) == Bits(PacketHeader, 8, 13)

adaptation_fieldc_trl_of(PacketHeader) == Bits(PacketHeader, 4, 2)

\* a plausible slip: PTS_lo shifted by 8
PTS_MSB24_of_shift8(info) == (info.PTS_hi % 2) * Pow2(23) + Bits(info.PTS_lo, 8, 23)

\* line 404
PTS_MSB24_of(info) == (info.PTS_hi % 2) * Pow2(23) + Bits(info.PTS_lo, 9, 23)

---------------------------------------------------------------------------
(* The state that one iteration of the while loop changes, as a record,    *)
(* and the pieces of the loop body as functions from that record to the    *)
(* record after them.  pc is "loop" while the body runs on, and becomes    *)
(* "continue", "report" (break), "returned" or "raised" where it ends.     *)

\* what an iteration did: the packet it looked at, whether the iteration
\* before it looked at the same offset, the branch it took, and for a
\* section start the table_id, whether the dispatch filter let it through,
\* which decoder ran, and what the "unique" test found
NoLast == [packet |-> -1, offset |-> -1, again |-> FALSE, path |-> "none", PID |-> -1,
           table_id |-> -1, filter |-> FALSE, decoded |-> "",
           unique |-> "", pes |-> NoPES, af |-> NoAF, loops |-> <<>>,
           width |-> 0, outcome |-> "", value |-> struct_error]

State == [n |-> n, packetCount |-> packetCount,
          EntryPESPacketNumList |-> EntryPESPacketNumList,
          TPIList |-> TPIList, PTSList |-> PTSList, PIDList |-> PIDList,
          idr_flag |-> idr_flag,
          last_SameES_packetNo |-> last_SameES_packetNo,
          last_EntryTPI |-> last_EntryTPI,
          PCR |-> PCR, PESPktInfo |-> PESPktInfo,
          pc |-> pc, log |-> log,
          last |-> [NoLast EXCEPT !.packet = packetCount, !.offset = n,
                                  !.again = (last.offset = n)]]

\* lines 519-520: the ceiling test that follows the increment
CeilingReached(count) == count > PacketLimit

\* lines 509-520: next packet, count it, stop above the ceiling
Advance(s) ==
    [s EXCEPT !.n = s.n + packet_size,
              !.packetCount = s.packetCount + 1,
              !.pc = IF CeilingReached(s.packetCount + 1) THEN "report" ELSE "loop"]

\* a plausible slip: the skip counting the packet without moving on
SkipDuplicate_countOnly(s) ==
    [s EXCEPT !.packetCount = s.packetCount + 1,
              !.pc = "continue",
              !.last.unique = "duplicate"]

\* lines 452-454, 474-476, 492-494: the "unique" skip of a PID seen before
SkipDuplicate(s) ==
    [s EXCEPT !.n = s.n + packet_size,
              !.packetCount = s.packetCount + 1,
              !.pc = "continue",
              !.last.unique = "duplicate"]

\* a plausible slip: the packet number kept only for a PES start
NoteSamePID_onStart(s, PacketHeader) ==
    IF PID_of(PacketHeader) = pid /\ s.last.path = "pes"
    THEN [s EXCEPT !.last_SameES_packetNo = s.packetCount]
    ELSE s

\* lines 503-504
NoteSamePID(s, PacketHeader) ==
    IF PID_of(PacketHeader) = pid
    THEN [s EXCEPT !.last_SameES_packetNo = s.packetCount]
    ELSE s

\* a plausible slip: the run taken to end at the current packet
RunLength_toCurrent(s) == s.packetCount - s.last_EntryTPI + 1

\* line 413: the length of the run that is closed
RunLength(s) == s.last_SameES_packetNo - s.last_EntryTPI + 1

\* a plausible slip: the run closed only when the current access unit is an IDR
ClosedRun_onIDR(s, isIDR) ==
    IF s.idr_flag /\ isIDR
    THEN Append(s.EntryPESPacketNumList, RunLength(s))
    ELSE s.EntryPESPacketNumList

\* lines 412-413: the run lengths after the test of idr_flag
ClosedRun(s, isIDR) ==
    IF s.idr_flag
    THEN Append(s.EntryPESPacketNumList, RunLength(s))
    ELSE s.EntryPESPacketNumList

\* a plausible slip: every PES start recorded as an entry point
EntryPoints_always(s, isIDR) == Append(s.TPIList, s.packetCount)

\* lines 418-423: the entry points after the test of the access unit type
EntryPoints(s, isIDR) ==
    IF isIDR THEN Append(s.TPIList, s.packetCount) ELSE s.TPIList

\* a plausible slip: the entry points kept in every mode
IsESMode_any(m) == TRUE

\* line 408
IsESMode(m) == m = "ES"

\* a plausible slip: the packet after the entry point noted
EntryPacket_next(s, isIDR) ==
    IF isIDR THEN s.packetCount + 1 ELSE s.last_EntryTPI

\* line 420: last_EntryTPI after the test of line 418
EntryPacket(s, isIDR) ==
    IF isIDR THEN s.packetCount ELSE s.last_EntryTPI

\* lines 404-426, r being the result of parsePESHeader
PESBranchFrom(s, PacketHeader, r) ==
    LET thisPID   == PID_of(PacketHeader)
        isIDR     == r.info.AUType = "IDR_picture"
        start     == Line("PES start", << s.packetCount, thisPID, PTS_MSB24_of(r.info),
                                          r.info.PTS_hi, r.info.PTS_lo[1],
                                          r.info.PTS_lo[2] >>, "")
        es        == Line("ES", << s.packetCount, thisPID, r.info.streamID >>,
                          r.info.AUType)
    IN  IF r.raised
        THEN [s EXCEPT !.PESPktInfo = r.info, !.last.path = "pes", !.last.pes = r,
                       !.pc = "raised"]
        ELSE IF IsESMode(mode)
        THEN [s EXCEPT
                !.PESPktInfo = r.info, !.last.path = "pes", !.last.pes = r,
                !.log = @ \o << start, es >>
                          \o (IF s.idr_flag THEN << es >> ELSE <<>>)
                          \o (IF isIDR THEN << es >> ELSE <<>>),
                !.EntryPESPacketNumList = ClosedRun(s, isIDR),
                !.idr_flag = isIDR,
                !.last_EntryTPI = EntryPacket(s, isIDR),
                !.TPIList = EntryPoints(s, isIDR),
                !.PTSList = IF isIDR THEN Append(@, PTS_MSB24_of(r.info)) ELSE @]
        ELSE [s EXCEPT !.PESPktInfo = r.info, !.last.path = "pes", !.last.pes = r,
                       !.log = @ \o << start >>]

\* line 403
PESBranch(s, PacketHeader, start) ==
    PESBranchFrom(s, PacketHeader, parsePESHeader(file, start, s.PESPktInfo))

\* a plausible slip: the wildcard filter of PMT and SIT without the PID test
DispatchFilter_noPID(table, thisPID) ==
    (searchItem = "FFF" /\ mode = table) \/ searchItem = table

\* the dispatch filters of lines 442, 464 and 483
DispatchFilter(table, thisPID) ==
    CASE table = "PAT" -> (searchItem = "FFF" /\ mode = "PAT") \/ searchItem = "PAT"
      [] table = "PMT" -> (searchItem = "FFF" /\ mode = "PMT" /\ thisPID = pid)
                          \/ searchItem = "PMT"
      [] table = "SIT" -> (searchItem = "FFF" /\ mode = "SIT" /\ thisPID = pid)
                          \/ searchItem = "SIT"

Decoder(table, k) ==
    CASE table = "PAT" -> parsePATSection(file, k)
      [] table = "PMT" -> parsePMTSection(file, k)
      [] table = "SIT" -> parseSITSection(file, k)

\* a plausible slip: no return in mode 0
ReturnsAfterDecode_never(mode_) == FALSE

\* lines 457, 479, 497
ReturnsAfterDecode(mode_) == mode_ = 0

\* lines 456-458, 477-480, 495-498, d being the result of the decoder: its
\* lines are logged (the 'pasing ... Packet!' line is handed an argument
\* its format does not take and is dropped by the logging module), then
\* mode 0 returns
DecodeFrom(s, table, d) ==
    IF d.raised
    THEN [s EXCEPT !.log = @ \o d.lines, !.last.decoded = table, !.pc = "raised"]
    ELSE IF ReturnsAfterDecode(psi_mode)
    THEN [s EXCEPT !.log = @ \o d.lines, !.last.decoded = table, !.pc = "returned"]
    ELSE [s EXCEPT !.log = @ \o d.lines, !.last.decoded = table]

Decode(s, table, k) == DecodeFrom(s, table, Decoder(table, k))

\* lines 443-447, 465-469, 484-488: "" when the "unique" test does not
\* apply, else whether the PID is new
UniqueTest(s, table, thisPID) ==
    IF psi_mode = 2 /\ searchItem = table
    THEN IF \A i \in 1..Len(s.PIDList) : s.PIDList[i] # thisPID
         THEN "first" ELSE "duplicate"
    ELSE ""

\* a plausible slip: the PID of a first section not kept
MarkSeen_forgets(s, thisPID) == [s EXCEPT !.last.unique = "first"]

\* lines 449-450, 471-472, 489-490
MarkSeen(s, thisPID) ==
    [s EXCEPT !.PIDList = Append(@, thisPID), !.last.unique = "first"]

\* lines 442-458, 464-480, 483-498 for one table, the filter passed.  The
\* continue of the PAT branch (line 454) follows the if/else, so a first
\* PAT on a PID is marked seen and the loop goes round without decoding;
\* the ones of the PMT and SIT branches (lines 476, 494) are inside the
\* else.
Filtered(s, table, thisPID, k, unique) ==
    IF unique = "duplicate" THEN SkipDuplicate(s)
    ELSE IF unique = "first" /\ table = "PAT"
    THEN [MarkSeen(s, thisPID) EXCEPT !.pc = "continue"]
    ELSE Decode(IF unique = "first" THEN MarkSeen(s, thisPID) ELSE s, table, k)

\* lines 439-498 for one table
Dispatch(s, table, thisPID, k) ==
    IF DispatchFilter(table, thisPID)
    THEN Filtered([s EXCEPT !.last.filter = TRUE], table, thisPID, k,
                  UniqueTest(s, table, thisPID))
    ELSE s

TableName(id) ==
    CASE id = 0 -> "PAT" [] id = 2 -> "PMT" [] id = 127 -> "SIT" [] OTHER -> ""

\* lines 434-498, table_id being the read of line 432 at offset k
PSIBranchFrom(s, PacketHeader, k, table_id) ==
    IF table_id = struct_error
    THEN [s EXCEPT !.last.path = "psi", !.pc = "raised"]
    ELSE IF TableName(Num(table_id)) = ""
    THEN [s EXCEPT !.last.path = "psi", !.last.table_id = Num(table_id)]
    ELSE Dispatch([s EXCEPT !.last.path = "psi", !.last.table_id = Num(table_id),
                            !.log = IF Num(table_id) = 0 /\ PID_of(PacketHeader) # 0
                                    THEN Append(@, Line("Ooops packet",
                                                        << s.packetCount >>, ""))
                                    ELSE @],
                  TableName(Num(table_id)), PID_of(PacketHeader), k)

\* lines 431-437
PSIBranch(s, PacketHeader, k) ==
    PSIBranchFrom(s, PacketHeader, k, readFile(file, k, 1))

\* lines 503-520, or the top of the loop after a continue
EndOfBody(s, PacketHeader) ==
    IF s.pc = "loop" THEN Advance(NoteSamePID(s, PacketHeader))
    ELSE IF s.pc = "continue" THEN [s EXCEPT !.pc = "loop"]
    ELSE s

\* a plausible slip: a PES start taken on any PID
IsPESStart_anyPID(PacketHeader, PESstartCode) ==
    /\ Shr(PESstartCode, 8) = 1
    /\ payload_unit_start_indicator_of(PacketHeader) = 1

\* line 400-401
IsPESStart(PacketHeader, PESstartCode) ==
    /\ Shr(PESstartCode, 8) = 1
    /\ PID_of(PacketHeader) = pid
    /\ payload_unit_start_indicator_of(PacketHeader) = 1

\* line 428-429
IsPSIStart(PacketHeader, PESstartCode) ==
    /\ Shr(PESstartCode, 8) # 1
    /\ payload_unit_start_indicator_of(PacketHeader) = 1

\* lines 400-504, PESstartCode being the read of line 398 at offset start
PayloadFrom(s, PacketHeader, start, PESstartCode) ==
    IF PESstartCode = struct_error
    THEN [s EXCEPT !.pc = "raised", !.last.path = "probe"]
    ELSE EndOfBody(
             IF IsPESStart(PacketHeader, PESstartCode)
             THEN PESBranch(s, PacketHeader, start)
             ELSE IF IsPSIStart(PacketHeader, PESstartCode)
             THEN PSIBranch(s, PacketHeader, start + 1 + Shr(PESstartCode, 24))
             ELSE [s EXCEPT !.last.path = "payload"],
             PacketHeader)

\* a plausible slip: the PCR flag of the adaptation field not looked at
PCRLines_anyField(s, PacketHeader, af) ==
    IF /\ adaptation_fieldc_trl_of(PacketHeader) \in {2, 3}
       /\ searchItem = "PCR"
    THEN << Line("PCR packet",
                 << s.packetCount, PID_of(PacketHeader), af.PCR.PCR_base_hi,
                    af.PCR.PCR_base_lo[1], af.PCR.PCR_base_lo[2],
                    af.PCR.PCR_extension, NumBits(af.flags, 7, 1) >>, "") >>
    ELSE <<>>

\* lines 388-394
PCRLines(s, PacketHeader, af) ==
    IF /\ adaptation_fieldc_trl_of(PacketHeader) \in {2, 3}
       /\ searchItem = "PCR"
       /\ NumBits(af.flags, 4, 1) = 1
    THEN << Line("PCR packet",
                 << s.packetCount, PID_of(PacketHeader), af.PCR.PCR_base_hi,
                    af.PCR.PCR_base_lo[1], af.PCR.PCR_base_lo[2],
                    af.PCR.PCR_extension, NumBits(af.flags, 7, 1) >>, "") >>
    ELSE <<>>

\* lines 388-520, af being the result of lines 383-386
AfterAdaptation(s, PacketHeader, af) ==
    IF af.raised
    THEN [s EXCEPT !.pc = "raised", !.last.path = "adaptation", !.last.af = af]
    ELSE IF adaptation_fieldc_trl_of(PacketHeader) \in {1, 3}
    THEN PayloadFrom([s EXCEPT !.PCR = af.PCR, !.last.af = af,
                               !.log = @ \o PCRLines(s, PacketHeader, af)],
                     PacketHeader, s.n + af.length + 4,
                     readFile(file, s.n + af.length + 4, 4))
    ELSE Advance([s EXCEPT !.PCR = af.PCR, !.last.af = af,
                           !.log = @ \o PCRLines(s, PacketHeader, af),
                           !.last.path = "nopayload"])

\* lines 369-520, PacketHeader being the read of line 367
AfterHeader(s, PacketHeader) ==
    IF PacketHeader = struct_error
    THEN [s EXCEPT !.pc = "raised", !.last.path = "header"]
    ELSE IF syncByte_of(PacketHeader) # PACKET_SYNC_BYTE
    THEN [s EXCEPT !.pc = "report", !.last.path = "sync",
                   !.log = Append(@, Line("Ooops sync", <<>>, ""))]
    ELSE AfterAdaptation(
             [s EXCEPT !.last.PID = PID_of(PacketHeader)],
             PacketHeader,
             IF adaptation_fieldc_trl_of(PacketHeader) \in {2, 3}
             THEN parseAdaptation_Field(file, s.n + 4, s.PCR)
             ELSE [raised |-> FALSE, length |-> 0, flags |-> 0, PCR |-> s.PCR])

\* lines 367-520: one iteration of the while loop
LoopBody == AfterHeader(State, readFile(file, n, 4))

---------------------------------------------------------------------------
(* The scan as a state machine.                                            *)

\* lines 340-358
InitScan(in) ==
    /\ file = in.file
    /\ packet_size = in.packet_size
    /\ mode = in.mode
    /\ pid = in.pid
    /\ psi_mode = in.psi_mode
    /\ searchItem = in.searchItem
    /\ n = IF in.packet_size # 192 THEN 0 ELSE 4
    /\ packetCount = 0
    /\ EntryPESPacketNumList = <<>>
    /\ TPIList = <<>>
    /\ PTSList = <<>>
    /\ PIDList = <<>>
    /\ idr_flag = FALSE
    /\ last_SameES_packetNo = 0
    /\ last_EntryTPI = 0
    /\ PCR = NewSystemClock
    /\ PESPktInfo = NewPESPacketInfo
    /\ pc = "loop"
    /\ closed = FALSE
    /\ log = <<>>
    /\ last = NoLast

Init == \E in \in ESInputs \cup PSIInputs : InitScan(in)

\* the state after an iteration that ends as r
Commit(r) ==
    /\ n' = r.n
    /\ packetCount' = r.packetCount
    /\ EntryPESPacketNumList' = r.EntryPESPacketNumList
    /\ TPIList' = r.TPIList
    /\ PTSList' = r.PTSList
    /\ PIDList' = r.PIDList
    /\ idr_flag' = r.idr_flag
    /\ last_SameES_packetNo' = r.last_SameES_packetNo
    /\ last_EntryTPI' = r.last_EntryTPI
    /\ PCR' = r.PCR
    /\ PESPktInfo' = r.PESPktInfo
    /\ pc' = r.pc
    /\ log' = r.log
    /\ last' = r.last
    /\ UNCHANGED << inputs, closed >>

\* line 367 finds fewer than 4 bytes: struct.error leaves parseTSMain
HeaderReadFails ==
    /\ pc = "loop"
    /\ \E r \in { LoopBody } : r.last.path = "header" /\ Commit(r)

\* lines 370-372
SyncMismatch ==
    /\ pc = "loop"
    /\ \E r \in { LoopBody } : r.last.path = "sync" /\ Commit(r)

\* a packet whose payload starts a PES packet on the target PID
PESStart ==
    /\ pc = "loop"
    /\ \E r \in { LoopBody } : r.last.path = "pes" /\ Commit(r)

\* a packet whose payload starts a section
PSIStart ==
    /\ pc = "loop"
    /\ \E r \in { LoopBody } : r.last.path = "psi" /\ Commit(r)

\* any other packet with a good sync byte
OtherPacket ==
    /\ pc = "loop"
    /\ \E r \in { LoopBody } :
          /\ r.last.path \in { "payload", "nopayload", "adaptation", "probe" }
          /\ Commit(r)

\* a plausible slip: the final block stopping one record early
ReportCount_oneLess == Len(EntryPESPacketNumList) - 1

\* the number of records of the final block (line 528)
ReportCount == Len(EntryPESPacketNumList)

\* lines 524-529, reached when the loop ends by break
EmitReport ==
    /\ pc = "report"
    /\ closed' = TRUE
    /\ log' = log \o << Line("====", <<>>, "") >>
                  \o [ i \in 1..ReportCount |->
                         Line("TPI", << TPIList[i], PTSList[i],
                                        EntryPESPacketNumList[i] >>, "") ]
    /\ pc' = "done"
    /\ UNCHANGED << inputs, n, packetCount, EntryPESPacketNumList, TPIList,
                    PTSList, PIDList, idr_flag, last_SameES_packetNo,
                    last_EntryTPI, PCR, PESPktInfo, last >>

Next ==
    \/ HeaderReadFails
    \/ SyncMismatch
    \/ PESStart
    \/ PSIStart
    \/ OtherPacket
    \/ EmitReport

Spec == Init /\ [][Next]_vars

\* a plausible slip: the file left as parseTSMain left it
ClosedAtExit_asLeft == closed

\* Main, lines 590-591: leaving the with block closes the file, whether
\* parseTSMain returned or raised
ClosedAtExit == TRUE

\* Main, lines 590-591: parseTSMain has ended (after the report, by the
\* return of the section decoders' branch, or by an exception) and the
\* with block is left
MainExit ==
    /\ pc \in { "done", "returned", "raised" }
    /\ closed' = ClosedAtExit
    /\ last' = [last EXCEPT !.outcome = pc]
    /\ pc' = "exit"
    /\ UNCHANGED << inputs, n, packetCount, EntryPESPacketNumList, TPIList,
                    PTSList, PIDList, idr_flag, last_SameES_packetNo,
                    last_EntryTPI, PCR, PESPktInfo, log >>

\* the scan of streams of packets with adaptation fields
InitPCR == \E in \in PCRInputs : InitScan(in)

SpecPCR == InitPCR /\ [][Next]_vars

\* the scan of streams of packets that start, or seem to start, a PES
\* packet or a section
InitDispatch == \E in \in DispatchInputs : InitScan(in)

SpecDispatch == InitDispatch /\ [][Next]_vars

\* the scan of streams of packets of 188, 192 and 204 bytes
InitUnits == \E in \in UnitInputs : InitScan(in)

SpecUnits == InitUnits /\ [][Next]_vars

\* the same scan, the interpreter running on as long as it can
InitLive == \E in \in LiveInputs : InitScan(in)

\* one iteration of the while loop of line 360
Iteration ==
    \/ HeaderReadFails
    \/ SyncMismatch
    \/ PESStart
    \/ PSIStart
    \/ OtherPacket

\* the interpreter does not stop in the middle of parseTSMain: the final
\* block is run once the loop is left, and while the loop condition of
\* line 360 holds (it is the constant True) another iteration is run.
\* The second conjunct is WF_vars(Iteration) with ENABLED << Iteration >>_vars
\* written out as pc = "loop": the loop body is defined on every state, and
\* last.again tells the second iteration on an offset from the first, so
\* an iteration leaves vars as they are only after two that stayed on
\* their offset.
Scheduling ==
    /\ WF_vars(EmitReport)
    /\ ([]<>(pc # "loop") \/ []<><< Iteration >>_vars)

SpecLive == InitLive /\ [][Next]_vars /\ Scheduling

\* the scan as Main runs it
SpecMain == Init /\ [][Next \/ MainExit]_vars

---------------------------------------------------------------------------
(* Properties of the scan.  They are stated on the bytes of the stream and *)
(* on the variables of parseTSMain.                                        *)

aggregator == << EntryPESPacketNumList, TPIList, PTSList, idr_flag,
                 last_SameES_packetNo, last_EntryTPI >>

\* the report of lines 527-529 is a line of "=" and the records after it
ReportRecords ==
    LET at == CHOOSE i \in 1..Len(log) : log[i].line = "===="
    IN  SubSeq(log, at + 1, Len(log))

\* the header fields of the packet at index i of the stream, from its bytes
PIDAt(i) ==
    (ByteAt(file, i * packet_size + 1) % 32) * 256 + ByteAt(file, i * packet_size + 2)

AFCAt(i) == (ByteAt(file, i * packet_size + 3) \div 16) % 4

\* C1: the scan halts at the first packet whose sync byte is not 0x47.
\* With a 4-byte header to read, the iteration takes the sync-mismatch exit
\* exactly when the first header byte is not 0x47; it then decodes nothing
\* (offset, counter, clock, PES info, seen PIDs and the aggregator lists
\* are unchanged), the only step that follows is the final report, which
\* leaves the aggregator unchanged, and nothing follows the report.
C1_SyncMismatchHalts ==
    [][ /\ (pc = "loop" /\ n + 4 <= FileLen(file))
           => ((ByteAt(file, n) # 71) <=> (last'.path = "sync"))
        /\ (pc = "loop" /\ n + 4 <= FileLen(file) /\ ByteAt(file, n) # 71)
           => /\ pc' = "report"
              /\ UNCHANGED << n, packetCount, aggregator, PIDList, PCR, PESPktInfo >>
              /\ log' = Append(log, Line("Ooops sync", <<>>, ""))
        /\ pc = "report"
           => /\ pc' = "done" /\ closed'
              /\ UNCHANGED << n, packetCount, aggregator, PIDList, PCR, PESPktInfo >>
              /\ Len(log') > Len(log)
              /\ log'[Len(log) + 1] = Line("====", <<>>, "")
        /\ pc # "done" ]_vars

\* a scan that recorded an entry point, met a bad sync byte with packets
\* still to come, and reported
C1_Witness ==
    /\ pc = "done" /\ last.path = "sync"
    /\ TPIList # <<>>
    /\ n + 2 * packet_size <= FileLen(file)
    /\ Len(ReportRecords) = Len(EntryPESPacketNumList)

\* C2: no read that finds fewer bytes than it asked for lets an exception
\* out of parseTSMain (pc is "raised" exactly when one got out).
C2_ShortReadTerminatesNormally == pc # "raised"

\* C3: no packet header is read (pc = "loop") while the packet counter is
\* above the ceiling.
C3_CeilingOnEveryPath == pc = "loop" => packetCount <= PacketLimit

\* C4: with psi_mode 0, an iteration that hands a section to its decoder
\* ends the scan by return (always when the packet is whole; when the
\* stream ends inside the section the decoder's read fails instead), the
\* return happens in no other iteration and leaves offset and counter at
\* that packet, and nothing is read after it.
C4_FirstOnlyReturns ==
    [][ psi_mode = 0
        => /\ (pc = "loop" /\ last'.decoded # "")
              => /\ pc' \in { "returned", "raised" }
                 /\ n + packet_size <= FileLen(file) => pc' = "returned"
           /\ pc' = "returned"
              => /\ pc = "loop" /\ last'.decoded # ""
                 /\ n' = n /\ packetCount' = packetCount
           /\ pc # "returned" ]_vars

\* a return at a table that is neither the first nor the last packet
C4_Witness ==
    /\ psi_mode = 0 /\ pc = "returned" /\ last.decoded = "PMT"
    /\ packetCount > 0
    /\ n + 2 * packet_size <= FileLen(file)

\* C5: with psi_mode 2 and search_item PAT, PMT or SIT, a section of the
\* targeted table on a PID not seen before is handed to the decoder and the
\* PID joins the seen PIDs; on a PID seen before it is not decoded.
C5_UniquePerPID ==
    [][ (psi_mode = 2 /\ pc = "loop" /\ last'.path = "psi"
           /\ TableName(last'.table_id) = searchItem)
        => IF \E i \in 1..Len(PIDList) : PIDList[i] = last'.PID
           THEN last'.decoded = "" /\ PIDList' = PIDList
           ELSE /\ last'.decoded = searchItem
                /\ \E i \in 1..Len(PIDList') : PIDList'[i] = last'.PID ]_vars

\* C6: a section start with table_id T passes T's dispatch filter exactly
\* when search_item is T, or search_item is the wildcard, mode is T and
\* (T is PAT or the packet's PID is the target PID); a decoder runs only
\* behind its filter, and never with search_item PCR.
C6_DispatchFilter ==
    [][ (pc = "loop" /\ last'.path = "psi" /\ TableName(last'.table_id) # "")
        => LET T == TableName(ByteAt(file, n + 5 + ByteAt(file, n + 4)))
               thisPID == PIDAt(n \div packet_size)
           IN  /\ AFCAt(n \div packet_size) = 1 => T = TableName(last'.table_id)
               /\ last'.filter
                    <=> \/ searchItem = T
                        \/ /\ searchItem = "FFF" /\ mode = T
                           /\ (T = "PAT" \/ thisPID = pid)
               /\ last'.decoded # "" => (last'.filter /\ last'.decoded = T)
               /\ searchItem = "PCR" => last'.decoded = "" ]_vars

\* a PMT on another PID than the target, wildcard search in mode PMT: not
\* dispatched
C6_Witness ==
    /\ last.path = "psi" /\ last.table_id = 2
    /\ searchItem = "FFF" /\ mode = "PMT" /\ last.PID # pid
    /\ ~last.filter /\ last.decoded = ""

\* the packets of the stream that start a PES packet classified IDR, and
\* non-IDR
IDRStarts == { i \in 0..(Len(file.packets) - 1) : file.packets[i + 1] = "IDR" }
NonIDRStarts == { i \in 0..(Len(file.packets) - 1) : file.packets[i + 1] = "NON" }
OtherStarts == { i \in 0..(Len(file.packets) - 1) : file.packets[i + 1] = "NOTS" }

\* exactly one IDR start, at p, and every PES start after it classified
\* non-IDR
OneIDRStart(p) ==
    /\ IDRStarts = { p }
    /\ \A i \in OtherStarts : i < p

\* the non-IDR starts after p that the scan has processed
ProcessedAfter(p) == { q \in NonIDRStarts : p < q /\ q < packetCount }

Least(S) == CHOOSE m \in S : \A x \in S : m <= x
Greatest(S) == CHOOSE m \in S : \A x \in S : x <= m

\* the last packet before q that is on the target PID and has a payload
LastSamePIDBefore(q) ==
    Greatest({ j \in 0..(q - 1) : PIDAt(j) = pid /\ AFCAt(j) \in {1, 3} })

C8_OneRecordPerEntryPoint ==
    pc = "done" => Len(ReportRecords) = Len(TPIList)

\* C8 amended: the report, when the scan reaches it, has one record per
\* index of run_lengths, record i being (entry_points[i], entry_pts[i],
\* run_lengths[i]); that is one record per entry point when the last run
\* has been closed and one less when it is still open.
C8_OneRecordPerRunLength ==
    pc = "done"
    => /\ ReportRecords =
            [ i \in 1..Len(EntryPESPacketNumList) |->
                Line("TPI", << TPIList[i], PTSList[i], EntryPESPacketNumList[i] >>, "") ]
       /\ Len(PTSList) = Len(TPIList)
       /\ Len(ReportRecords) = Len(TPIList) - (IF idr_flag THEN 1 ELSE 0)

\* a report of one record after two entry points, the second run open
C8_Witness ==
    /\ pc = "done" /\ idr_flag
    /\ Len(TPIList) = 2 /\ Len(ReportRecords) = 1
    /\ ReportRecords[1].v = << TPIList[1], PTSList[1], EntryPESPacketNumList[1] >>

\* bits 8..20 of the four header bytes at offset n
RawPID == (ByteAt(file, n + 1) % 32) * 256 + ByteAt(file, n + 2)

\* the lines that the step adds to the log
NewLines == SubSeq(log', Len(log) + 1, Len(log'))

\* C13: for a packet whose header is read and whose sync byte is 0x47, the
\* PID of every dispatch decision is bits 8..20 of the header, a value of
\* 0..0x1FFF that depends on no other byte and no earlier packet: it is
\* the PID of the iteration, the PES branch is taken only when it equals
\* the target PID, the PCR, PES and ES lines carry it, and the last packet
\* number of the target PID moves exactly when it equals the target PID.
C13_PIDFromHeader ==
    [][ (pc = "loop" /\ n + 4 <= FileLen(file) /\ ByteAt(file, n) = PACKET_SYNC_BYTE)
        => /\ RawPID \in 0..8191
           /\ last'.PID = RawPID
           /\ last'.path = "pes" => RawPID = pid
           /\ \A i \in 1..Len(NewLines) :
                NewLines[i].line \in { "PCR packet", "PES start", "ES" }
                => NewLines[i].v[2] = RawPID
           /\ (last'.path \in { "pes", "payload" } /\ pc' \in { "loop", "report" })
              => last_SameES_packetNo' = IF RawPID = pid THEN packetCount
                                         ELSE last_SameES_packetNo ]_vars

\* a packet after the first, with an adaptation field, on the target PID,
\* and no PES start
C13_Witness ==
    /\ last.packet >= 1
    /\ last.PID = PidA /\ pid = PidA
    /\ last.path = "nopayload"
    /\ AFCAt(last.packet) = 2

\* C15: when the scan has ended and Main has left its with block, the file
\* is closed, however the scan ended: after the report (sync mismatch or
\* packet ceiling), by the return after a decoded section, or by the
\* exception of a read at the end of the stream.
C15_ClosedOnEveryExit ==
    pc = "exit" => /\ closed
                   /\ last.outcome \in { "done", "returned", "raised" }

\* Main left after parseTSMain returned from the branch of the sections,
\* which does not close the file itself
C15_Witness ==
    /\ pc = "exit" /\ closed
    /\ last.outcome = "returned"
    /\ last.path = "psi"

\* the lines that the code writes for a halt: line 371 and line 523 (the
\* break of line 520 writes none)
Diagnostics == { "Ooops sync", "IO error" }

\* C16: every step that ends the loop other than by the return after a
\* decoded section (a sync mismatch, a read that finds the stream
\* exhausted, the packet ceiling) writes a diagnostic line as its last
\* line and goes on to the report.
C16_HaltsDiagnosedAndReported ==
    [][ (pc = "loop" /\ pc' \notin { "loop", "returned" })
        => /\ pc' = "report"
           /\ NewLines # <<>>
           /\ NewLines[Len(NewLines)].line \in Diagnostics ]_vars

\* the byte at offset i of the packet that the loop is at
Here(i) == ByteAt(file, n + i)

\* the adaptation field of the packet at n, if it has one, can be read as
\* far as parseAdaptation_Field reads it
AdaptationReadable ==
    (Here(3) \div 16) % 4 \in { 2, 3 }
    => /\ n + 5 <= FileLen(file)
       /\ Here(4) > 0 => /\ n + 6 <= FileLen(file)
                         /\ (Here(5) \div 16) % 2 = 1 => n + 12 <= FileLen(file)

\* the PCR in bytes 6..11 of the packet at n: the top bit, the 33-bit
\* PCR_base_lo (the 32 bits of bytes 6..9 doubled, plus the top bit of
\* byte 10) as high and low part, the 9-bit extension
RawPCR ==
    LET low == 2 * (Here(8) * 256 + Here(9)) + (Here(10) \div 128)
    IN  << Here(6) \div 128,
           2 * (Here(6) * 256 + Here(7)) + (low \div Limb),
           low % Limb,
           (Here(10) * 256 + Here(11)) % 512 >>

PCRRecords(lines) == SelectSeq(lines, LAMBDA x : x.line = "PCR packet")

\* C17: a packet with a good sync byte whose adaptation field can be read
\* gets a PCR record if and only if searchItem is PCR, its
\* adaptation_field_control is 2 or 3, its adaptation field length is not
\* 0 and bit 4 of its adaptation flags is set; the record carries the
\* packet number, the PID, the PCR decoded from bytes 6..11 of this packet
\* and bit 7 of its adaptation flags as the discontinuity.
C17_PCRRecord ==
    [][ (/\ pc = "loop" /\ n + 4 <= FileLen(file)
         /\ Here(0) = PACKET_SYNC_BYTE /\ AdaptationReadable)
        => PCRRecords(NewLines) =
             IF /\ searchItem = "PCR"
                /\ (Here(3) \div 16) % 4 \in { 2, 3 }
                /\ Here(4) > 0
                /\ (Here(5) \div 16) % 2 = 1
             THEN << Line("PCR packet",
                          << packetCount, RawPID, RawPCR[1], RawPCR[2], RawPCR[3],
                             RawPCR[4], Here(5) \div 128 >>, "") >>
             ELSE <<>> ]_vars

\* two PCR records with different values: one with the discontinuity, then
\* one without from a packet that also has a payload
C17_Witness ==
    /\ searchItem = "PCR"
    /\ Len(PCRRecords(log)) = 2
    /\ PCRRecords(log)[1].v[7] = 1 /\ PCRRecords(log)[2].v[7] = 0
    /\ PCRRecords(log)[1].v[3] = 1 /\ PCRRecords(log)[2].v[5] = 65535
    /\ last.path = "payload" /\ last.packet = 1

\* a step that processes a PES start on the target PID in ES mode, the PES
\* header read in full
ESStartStep ==
    /\ pc = "loop" /\ mode = "ES"
    /\ last'.path = "pes" /\ ~ last'.pes.raised

\* C18: in ES mode a PES start on the target PID processed while idr_flag
\* is true appends last_SameES_packetNo - last_EntryTPI + 1, both as they
\* were before this packet, to the run lengths, whatever the access unit
\* type of this packet; while idr_flag is false it appends nothing; no
\* other step changes the run lengths.
C18_RunClosedBeforeClassification ==
    [][ IF ESStartStep
        THEN EntryPESPacketNumList' =
               IF idr_flag
               THEN Append(EntryPESPacketNumList,
                           last_SameES_packetNo - last_EntryTPI + 1)
               ELSE EntryPESPacketNumList
        ELSE EntryPESPacketNumList' = EntryPESPacketNumList ]_vars

\* a run of two packets, an IDR and a packet without a PES start, closed
\* by a PES start that is not an IDR
C18_Witness ==
    /\ mode = "ES" /\ last.path = "pes" /\ ~ last.pes.raised
    /\ EntryPESPacketNumList = << 2 >>
    /\ TPIList = << 0 >>
    /\ last.packet = 2
    /\ PESPktInfo.AUType # "IDR_picture"
    /\ PIDList = <<>>

\* (PTS_hi bit << 23) | ((PTS_lo >> 9) & 0x7FFFFF) of the PES packet
\* object, PTS_lo being high * 2^16 + low
MSB24(info) ==
    ((info.PTS_hi % 2) * 8388608)
    + ((info.PTS_lo[1] * 128 + (info.PTS_lo[2] \div 512)) % 8388608)

\* C19: in ES mode, after a PES start on the target PID whose access unit
\* type (the one the PES packet object holds after parsePESHeader) is
\* IDR_picture, idr_flag is true, last_EntryTPI is the packet number, the
\* packet number is appended to TPIList and PTS_MSB24 to PTSList; after
\* one of any other type idr_flag is false and nothing is appended;
\* TPIList and PTSList always have the same length.
C19_EntryPointOnIDR ==
    /\ [](Len(TPIList) = Len(PTSList))
    /\ [][ ESStartStep
           => IF PESPktInfo'.AUType = "IDR_picture"
              THEN /\ idr_flag'
                   /\ last_EntryTPI' = packetCount
                   /\ TPIList' = Append(TPIList, packetCount)
                   /\ PTSList' = Append(PTSList, MSB24(PESPktInfo'))
              ELSE /\ ~ idr_flag'
                   /\ UNCHANGED << TPIList, PTSList, last_EntryTPI >> ]_vars

\* a second entry point, recorded after a PES start of another type had
\* reset idr_flag
C19_Witness ==
    /\ mode = "ES" /\ last.path = "pes" /\ ~ last.pes.raised
    /\ idr_flag
    /\ TPIList = << 0, 2 >>
    /\ Len(PTSList) = 2 /\ PTSList[2] = MSB24(PESPktInfo) /\ PTSList[2] > 0
    /\ last_EntryTPI = 2
    /\ Len(EntryPESPacketNumList) = 1

\* C20: the entry points are as many as the run lengths, or one more, and
\* one more exactly when idr_flag is true.
C20_OpenRunIffIdrFlag ==
    Len(TPIList) - Len(EntryPESPacketNumList) = IF idr_flag THEN 1 ELSE 0

\* two runs closed, the second by a PES start that opened no new one
C20_Witness ==
    /\ Len(EntryPESPacketNumList) = 2
    /\ Len(TPIList) = 2
    /\ ~ idr_flag
    /\ last.path = "pes"

\* the step went through the loop body to lines 503-511: it was ended by
\* no break, return, exception or continue
ReachedEndOfBody ==
    /\ pc' \in { "loop", "report" }
    /\ last'.path \in { "pes", "psi", "payload", "nopayload" }
    /\ n' = n + packet_size
    /\ last'.unique # "duplicate"

\* C21 as stated: last_SameES_packetNo becomes the packet number when a
\* PES start on the target PID has been processed, and no other packet
\* changes it.
C21_UpdatedOnlyAfterPESStart ==
    [][ pc = "loop"
        => last_SameES_packetNo' =
             IF last'.path = "pes" /\ ReachedEndOfBody
             THEN packetCount ELSE last_SameES_packetNo ]_vars

\* C21: last_SameES_packetNo becomes the packet number at the end of the
\* loop body of every packet on the target PID that has a payload
\* (adaptation_field_control 1 or 3), PES start or not; a packet on
\* another PID, a packet without payload and a packet whose iteration
\* does not reach the end of the loop body leave it unchanged.
C21_UpdatedAfterEveryPayloadPacket ==
    [][ pc = "loop"
        => last_SameES_packetNo' =
             IF /\ ReachedEndOfBody
                /\ RawPID = pid
                /\ (Here(3) \div 16) % 4 \in { 1, 3 }
             THEN packetCount ELSE last_SameES_packetNo ]_vars

\* a packet that starts nothing moved it, and one without payload did not
C21_Witness ==
    /\ last_SameES_packetNo = 1
    /\ last.packet = 2 /\ last.path = "nopayload" /\ last.PID = pid
    /\ PIDAt(1) = pid /\ ByteAt(file, packet_size + 1) \div 64 = 0
    /\ EntryPESPacketNumList = <<>> /\ TPIList = <<>>

\* adaptation_field_control and payload_unit_start_indicator of the packet
\* at n, and where its payload starts
RawAFC == (Here(3) \div 16) % 4
RawPUSI == (Here(1) \div 64) % 2
PayloadStart == IF RawAFC \in { 2, 3 } THEN 4 + Here(4) + 1 ELSE 4

\* the payload of the packet at n begins 0x000001
StartCodePrefix ==
    /\ Here(PayloadStart) = 0
    /\ Here(PayloadStart + 1) = 0
    /\ Here(PayloadStart + 2) = 1

\* the header, the adaptation field and the 4-byte probe of the packet at
\* n can be read
ProbeReadable ==
    /\ n + 4 <= FileLen(file)
    /\ Here(0) = PACKET_SYNC_BYTE
    /\ AdaptationReadable
    /\ RawAFC \in { 1, 3 } => n + PayloadStart + 4 <= FileLen(file)

\* C24: for a packet read as far as its payload probe, parsePESHeader is
\* called iff adaptation_field_control is 1 or 3, the probe is 0x000001xx,
\* the PID is the target PID and payload_unit_start_indicator is 1; the
\* table_id is read iff adaptation_field_control is 1 or 3, the probe is
\* not 0x000001xx and payload_unit_start_indicator is 1; and after a
\* probe of 0x000001xx no table_id is read and no section decoder called.
C24_PayloadDispatch ==
    [][ (pc = "loop" /\ ProbeReadable)
        => /\ last'.path = "pes"
              <=> (RawAFC \in { 1, 3 } /\ StartCodePrefix /\ RawPID = pid /\ RawPUSI = 1)
           /\ last'.path = "psi"
              <=> (RawAFC \in { 1, 3 } /\ ~ StartCodePrefix /\ RawPUSI = 1)
           /\ (RawAFC \in { 1, 3 } /\ StartCodePrefix)
              => last'.table_id = -1 /\ last'.decoded = "" ]_vars

\* a PES start after an adaptation field, following a PES start on
\* another PID that was not decoded
C24_Witness ==
    /\ last.path = "pes" /\ last.packet = 1
    /\ AFCAt(1) = 3
    /\ PIDAt(0) = PidB /\ ByteAt(file, 4) = 0 /\ ByteAt(file, 5) = 0
    /\ ByteAt(file, 6) = 1 /\ ByteAt(file, 1) \div 64 = 1
    /\ PESPktInfo.AUType = "IDR_picture"
    /\ TPIList = << 1 >>

\* lines 343-346
Base == IF packet_size = 192 THEN 4 ELSE 0

\* C25: the offset n, at which line 367 reads the packet header, is always
\* base + packetCount * packet_size, base being 4 for packets of 192 bytes
\* and 0 otherwise; a step moves neither n nor packetCount, or adds
\* packet_size to n and 1 to packetCount, also when it skips a packet of a
\* PID seen before.
C25_OffsetFollowsCount ==
    /\ [](n = Base + packetCount * packet_size)
    /\ [][ /\ pc = "loop" => last'.offset = Base + packetCount * packet_size
           /\ \/ n' = n /\ packetCount' = packetCount
              \/ n' = n + packet_size /\ packetCount' = packetCount + 1 ]_vars

\* packets of 192 bytes: the second packet skipped as one of a PID seen
\* before
C25_Witness ==
    /\ packet_size = 192
    /\ last.unique = "duplicate" /\ last.packet = 1 /\ last.offset = 196
    /\ packetCount = 2 /\ n = 388

\* C26: every read made while a packet is processed lies inside the
\* packet_size bytes of the packet; so when those bytes are all in the
\* stream, no read of the iteration finds the stream exhausted, and the
\* payload probe, which is read at the end of the adaptation field, ends
\* inside the packet.
C26_ReadsInsidePacket ==
    [][ (pc = "loop" /\ n + packet_size <= FileLen(file))
        => /\ pc' # "raised"
           /\ last'.path \in { "pes", "psi", "payload" }
              => PayloadStart + 4 <= packet_size ]_vars

\* C27: a step changes one of EntryPESPacketNumList, TPIList, PTSList,
\* idr_flag, last_EntryTPI only if it processes, in ES mode, a packet with
\* a payload that begins 0x000001, on the target PID, with
\* payload_unit_start_indicator 1; every other step leaves the five as
\* they are.
C27_AggregatorChangesOnlyOnESStart ==
    [][ << EntryPESPacketNumList, TPIList, PTSList, idr_flag, last_EntryTPI >>'
          # << EntryPESPacketNumList, TPIList, PTSList, idr_flag, last_EntryTPI >>
        => /\ pc = "loop" /\ mode = "ES"
           /\ ProbeReadable
           /\ RawAFC \in { 1, 3 } /\ StartCodePrefix
           /\ RawPID = pid /\ RawPUSI = 1 ]_vars

\* an entry point recorded at the third packet, after a PES start on
\* another PID and a start code without the start indicator changed nothing
C27_Witness ==
    /\ mode = "ES"
    /\ file.packets = << "PESB", "PES0", "IDR" >>
    /\ TPIList = << 2 >> /\ idr_flag /\ last_EntryTPI = 2
    /\ EntryPESPacketNumList = <<>>

\* parseTSMain has ended: after the report, by a return, or by an exception
Halted == pc \in { "done", "returned", "raised" }

\* C28: on a finite stream the scan ends, for packets of 188, 192 and 204
\* bytes and every mode, psi_mode and searchItem: every iteration (the
\* loops of the section decoders it runs included) comes to its end, and
\* an iteration that starts at the offset of the one before it (after the
\* continue of a first section on a PID) moves on to the next packet or
\* ends the loop, so no packet is looked at more than twice.
C28_ScanHalts ==
    /\ <>Halted
    /\ [][ (pc = "loop" /\ last.offset = n)
           => (n' = n + packet_size \/ pc' # "loop") ]_vars

\* a PAT looked at twice, first marked seen and then skipped, in a scan
\* that went on to the next packet and ended
C28_Witness ==
    /\ Halted
    /\ psi_mode = 2 /\ searchItem = "PAT"
    /\ PIDList = << 0 >>
    /\ packetCount >= 1 /\ n = Base + packetCount * packet_size
    /\ packet_size = 204
    /\ last.path = "sync"


\* the PES header of the packet at n yields no classification: a system
\* stream_id (line 135), or a PTS_DTS_flag of 0b00 or 0b01 (line 161)
NoClassification ==
    \/ Here(PayloadStart + 3) \in SystemStreamIDs
    \/ (Here(PayloadStart + 7) \div 64) \in { 0, 1 }

\* C29: the access unit type and the PTS that the aggregator uses for a PES
\* start are decoded from that packet: in ES mode a PES start on the target
\* PID whose header yields no classification records no entry point (it
\* appends nothing to TPIList and PTSList and leaves idr_flag false).
C29_NothingCarriedOver ==
    [][ (ESStartStep /\ NoClassification)
        => /\ TPIList' = TPIList
           /\ PTSList' = PTSList
           /\ ~ idr_flag' ]_vars

\* C30: while idr_flag is true the last packet seen on the target PID is
\* not before the last entry point, so that every run length recorded is at
\* least 1; and the entry points are recorded in strictly increasing order
\* of packet number.
C30_RunLengthsPositive ==
    /\ idr_flag => last_SameES_packetNo >= last_EntryTPI
    /\ \A i \in 1..Len(EntryPESPacketNumList) : EntryPESPacketNumList[i] >= 1
    /\ \A i \in 1..(Len(TPIList) - 1) : TPIList[i] < TPIList[i + 1]

\* a run of two packets closed by a second IDR start, which opened the next
C30_Witness ==
    /\ idr_flag
    /\ TPIList = << 0, 2 >>
    /\ EntryPESPacketNumList = << last_SameES_packetNo - TPIList[1] >>
    /\ last_SameES_packetNo = last_EntryTPI
    /\ file.packets = << "IDR", "CONT", "IDR" >>
    /\ pc = "done"
---------------------------------------------------------------------------
(* The decoders on their own.  parsePESHeader and parseAdaptation_Field    *)
(* are called on a stream given by its bytes, the fields drawn from the    *)
(* values that decide their branches, the stream possibly cut short.       *)

\* a stream given by its first keep bytes
Bytes(bs, keep) == [bytes |-> SubSeq(bs, 1, keep), len |-> keep]

\* a PES packet from its start code on: stream_id, the byte that carries
\* the PTS_DTS_flag, the header data length, two timestamps and an access
\* unit delimiter
PESHeaderBytes(stream_id, flags2, hdl, ppt) ==
    << 0, 0, 1, stream_id, 0, 0, 128, flags2, hdl,
       49, 128, 1, 4, 1,   25, 0, 3, 0, 9,
       0, 0, 0, 1, 9, ppt * 32 + 16, 0, 0, 0 >>

StalePESPacketInfo ==
    [PTS_hi |-> 0, PTS_lo |-> W(77), streamID |-> 224, AUType |-> "IDR_picture"]

PESCalls ==
    { [file |-> Bytes(PESHeaderBytes(sid, f2, hdl, ppt), keep), info |-> info] :
        sid \in { 224, 192, 188, 190 }, f2 \in { 0, 64, 128, 192, 193 },
        hdl \in { 0, 5, 10 }, ppt \in { 0, 1 },
        keep \in { 28, 4, 8, 12, 17, 21 },
        info \in { NewPESPacketInfo, StalePESPacketInfo } }

\* an adaptation field from its length byte on
AdaptationFieldBytes(length, flags, b2, b34, b5, b6, b7) ==
    << length, flags, b2, b34, b34, b5, b6, b7 >>

AFCalls ==
    { Bytes(AdaptationFieldBytes(length, flags, b2, b34, b5, b6, b7), keep) :
        length \in { 0, 7 }, flags \in { 0, 16, 144 },
        b2 \in { 0, 127, 255 }, b34 \in { 0, 255 }, b5 \in { 0, 255 },
        b6 \in { 0, 1, 128, 255 }, b7 \in { 0, 255 },
        keep \in { 8, 0, 1, 2, 5, 7 } }

\* everything but the stream and the object handed to the decoder
NoScan ==
    /\ packet_size = TSPacketSize
    /\ mode = "ES"
    /\ pid = PidA
    /\ psi_mode = 0
    /\ searchItem = "FFF"
    /\ n = 0
    /\ packetCount = 0
    /\ EntryPESPacketNumList = <<>>
    /\ TPIList = <<>>
    /\ PTSList = <<>>
    /\ PIDList = <<>>
    /\ idr_flag = FALSE
    /\ last_SameES_packetNo = 0
    /\ last_EntryTPI = 0
    /\ pc = "call"
    /\ closed = FALSE
    /\ log = <<>>
    /\ last = NoLast

InitPES ==
    /\ \E c \in PESCalls : file = c.file /\ PESPktInfo = c.info
    /\ PCR = NewSystemClock
    /\ NoScan

\* parsePESHeader(filehandle, 0, PESPktInfo)
CallParsePESHeader ==
    /\ pc = "call"
    /\ \E r \in { parsePESHeader(file, 0, PESPktInfo) } :
          /\ PESPktInfo' = r.info
          /\ last' = [NoLast EXCEPT !.path = "parsePESHeader", !.pes = r]
          /\ pc' = IF r.raised THEN "raised" ELSE "returned"
    /\ UNCHANGED << inputs, n, packetCount, EntryPESPacketNumList, TPIList,
                    PTSList, PIDList, idr_flag, last_SameES_packetNo,
                    last_EntryTPI, PCR, closed, log >>

SpecPES == InitPES /\ [][CallParsePESHeader]_vars

InitAF ==
    /\ file \in AFCalls
    /\ PCR = NewSystemClock
    /\ PESPktInfo = NewPESPacketInfo
    /\ NoScan

\* parseAdaptation_Field(filehandle, 0, PCR)
CallParseAdaptation_Field ==
    /\ pc = "call"
    /\ \E r \in { parseAdaptation_Field(file, 0, PCR) } :
          /\ PCR' = r.PCR
          /\ last' = [NoLast EXCEPT !.path = "parseAdaptation_Field", !.af = r]
          /\ pc' = IF r.raised THEN "raised" ELSE "returned"
    /\ UNCHANGED << inputs, n, packetCount, EntryPESPacketNumList, TPIList,
                    PTSList, PIDList, idr_flag, last_SameES_packetNo,
                    last_EntryTPI, PESPktInfo, closed, log >>

SpecAF == InitAF /\ [][CallParseAdaptation_Field]_vars

\* a PAT section from its table_id on: the entries are pairs
\* (program_number, PID), the three bits above the PID set as in a stream
PATEntryBytes(e) == << e[1] \div 256, e[1] % 256, 224 + (e[2] \div 256), e[2] % 256 >>

RECURSIVE Flatten(_)
Flatten(ss) == IF ss = <<>> THEN <<>> ELSE Head(ss) \o Flatten(Tail(ss))

PATSectionBytes(table_id, entries) ==
    << table_id, 176, 9 + 4 * Len(entries), 0, 1, 193, 0, 0 >>
    \o Flatten([ i \in 1..Len(entries) |-> PATEntryBytes(entries[i]) ])
    \o << 1, 2, 3, 4 >>

\* the longest PAT, in entries
MaxPATEntries == 3

PATEntries == { << 0, 16 >>, << 1, PidA >>, << 2, 8191 >>, << 65535, PidB >> }

RECURSIVE SeqsUpTo(_, _)
SeqsUpTo(S, k) ==
    IF k = 0 THEN { <<>> }
    ELSE LET shorter == SeqsUpTo(S, k - 1)
         IN  shorter \cup { Append(q, x) : q \in { g \in shorter : Len(g) = k - 1 },
                                           x \in S }

\* a stream given by its bytes less the last cut of them
CutBytes(bs, cut) == Bytes(bs, Len(bs) - cut)

PATCalls ==
    { CutBytes(PATSectionBytes(table_id, entries), cut) :
        table_id \in { 0, 2 }, entries \in SeqsUpTo(PATEntries, MaxPATEntries),
        cut \in { 0, 4, 5, 8, 11 } }

InitPAT ==
    /\ file \in PATCalls
    /\ PCR = NewSystemClock
    /\ PESPktInfo = NewPESPacketInfo
    /\ NoScan

\* parsePATSection(filehandle, 0)
CallParsePATSection ==
    /\ pc = "call"
    /\ \E r \in { parsePATSection(file, 0) } :
          /\ log' = r.lines
          /\ last' = [NoLast EXCEPT !.path = "parsePATSection"]
          /\ pc' = IF r.raised THEN "raised" ELSE "returned"
    /\ UNCHANGED << inputs, n, packetCount, EntryPESPacketNumList, TPIList,
                    PTSList, PIDList, idr_flag, last_SameES_packetNo,
                    last_EntryTPI, PCR, PESPktInfo, closed >>

SpecPAT == InitPAT /\ [][CallParsePATSection]_vars

\* a descriptor: tag, length, content
DescriptorBytes(tag, length) == << tag, length >> \o [ i \in 1..length |-> 9 ]

Descriptors == { DescriptorBytes(5, 0), DescriptorBytes(10, 1), DescriptorBytes(255, 2) }

\* the longest descriptor loop, in descriptors, and the longest PMT, in
\* stream entries
MaxDescriptors == 2
MaxStreams == 2

DescriptorLoops == { Flatten(ds) : ds \in SeqsUpTo(Descriptors, MaxDescriptors) }

\* a stream entry: stream_type 0x1B, elementary PID, ES_info_length, loop
StreamEntryBytes(loop) ==
    << 27, 224 + (PidA \div 256), PidA % 256, 240 + (Len(loop) \div 256), Len(loop) % 256 >>
    \o loop

\* a PMT section from its table_id on.  The program_info_length announced
\* is that of the program descriptor loop less short.
PMTSectionBytes(program, streams, short) ==
    LET body == Flatten([ i \in 1..Len(streams) |-> StreamEntryBytes(streams[i]) ])
        pil  == Len(program) - short
    IN  << 2, 176, 9 + pil + Len(body) + 4, 0, 1, 193, 0, 0,
           224 + (PidA \div 256), PidA % 256, 240 + (pil \div 256), pil % 256 >>
        \o program \o body \o << 1, 2, 3, 4 >>

PMTCalls ==
    { CutBytes(PMTSectionBytes(program, streams, short), cut) :
        program \in DescriptorLoops,
        streams \in SeqsUpTo({ <<>>, DescriptorBytes(255, 2),
                               DescriptorBytes(5, 0) \o DescriptorBytes(10, 1) },
                             MaxStreams),
        short \in { 0, 1 }, cut \in { 0, 4, 6, 9 } }

InitPMT ==
    /\ file \in { c \in PMTCalls : c.len > 12 }
    /\ PCR = NewSystemClock
    /\ PESPktInfo = NewPESPacketInfo
    /\ NoScan

\* parsePMTSection(filehandle, 0)
CallParsePMTSection ==
    /\ pc = "call"
    /\ \E r \in { parsePMTSection(file, 0) } :
          /\ log' = r.lines
          /\ last' = [NoLast EXCEPT !.path = "parsePMTSection", !.loops = r.loops]
          /\ pc' = IF r.raised THEN "raised" ELSE "returned"
    /\ UNCHANGED << inputs, n, packetCount, EntryPESPacketNumList, TPIList,
                    PTSList, PIDList, idr_flag, last_SameES_packetNo,
                    last_EntryTPI, PCR, PESPktInfo, closed >>

SpecPMT == InitPMT /\ [][CallParsePMTSection]_vars

\* the longest stream handed to readFile, in bytes
MaxReadLen == 5

ReadCalls ==
    { [bytes |-> bs, len |-> Len(bs)] : bs \in SeqsUpTo({ 0, 18, 255 }, MaxReadLen) }

InitRead ==
    /\ file \in ReadCalls
    /\ PCR = NewSystemClock
    /\ PESPktInfo = NewPESPacketInfo
    /\ NoScan

\* readFile(filehandle, startPos, width)
CallReadFile ==
    /\ pc = "call"
    /\ \E startPos \in 0..MaxReadLen, width \in { 1, 2, 4 } :
          /\ last' = [NoLast EXCEPT !.path = "readFile", !.offset = startPos,
                                    !.width = width,
                                    !.outcome = readFileOutcome(file, startPos, width),
                                    !.value = readFile(file, startPos, width)]
          /\ pc' = IF readFileOutcome(file, startPos, width) = "value"
                   THEN "returned" ELSE "raised"
    /\ UNCHANGED << inputs, n, packetCount, EntryPESPacketNumList, TPIList,
                    PTSList, PIDList, idr_flag, last_SameES_packetNo,
                    last_EntryTPI, PCR, PESPktInfo, closed, log >>

SpecRead == InitRead /\ [][CallReadFile]_vars

\* a payload: filler, a start code with a NAL header byte and the byte
\* after it, filler, an access unit delimiter, filler
PayloadBytes(fill, before, nal, next, between) ==
    [ i \in 1..before |-> fill ] \o << 0, 0, 1, nal, next >>
    \o [ i \in 1..between |-> fill ] \o << 0, 0, 1, 9, 16, 255, 255, 255 >>

PayloadCalls ==
    { CutBytes(PayloadBytes(fill, before, nal, next, between), cut) :
        fill \in { 0, 255 }, before \in { 0, 1, 50, 99, 100, 101 },
        nal \in { 9, 41, 1, 103 }, next \in { 16, 31, 48, 240 },
        between \in { 0, 60 }, cut \in { 0, 8, 12, 70 } }

InitAU ==
    /\ file \in PayloadCalls
    /\ PCR = NewSystemClock
    /\ PESPktInfo = NewPESPacketInfo
    /\ NoScan

\* parseIndividualPESPayload(filehandle, 0)
CallParseIndividualPESPayload ==
    /\ pc = "call"
    /\ \E r \in { parseIndividualPESPayload(file, 0) } :
          /\ last' = [NoLast EXCEPT !.path = "parseIndividualPESPayload",
                                    !.outcome = r.auType]
          /\ pc' = IF r.raised THEN "raised" ELSE "returned"
    /\ UNCHANGED << inputs, n, packetCount, EntryPESPacketNumList, TPIList,
                    PTSList, PIDList, idr_flag, last_SameES_packetNo,
                    last_EntryTPI, PCR, PESPktInfo, closed, log >>

SpecAU == InitAU /\ [][CallParseIndividualPESPayload]_vars

\* a 5-byte timestamp: byte0, word1, word2
TimestampCalls ==
    { Bytes(<< byte0, w1hi, w1lo, w2hi, w2lo >>, keep) :
        byte0 \in { 0, 6, 8, 14, 33, 49, 241, 255 },
        w1hi \in { 0, 1, 128, 255 }, w1lo \in { 0, 1, 254, 255 },
        w2hi \in { 0, 128, 255 }, w2lo \in { 0, 1, 254, 255 },
        keep \in { 5, 0, 2, 4 } }

InitPTS ==
    /\ file \in TimestampCalls
    /\ PCR = NewSystemClock
    /\ PESPktInfo = NewPESPacketInfo
    /\ NoScan

\* (PTS_hi, PTS_low) = getPTS(filehandle, 0); PESPktInfo.setPTS(PTS_hi,
\* PTS_low), and PTS_MSB24 as line 404 derives it
CallGetPTS ==
    /\ pc = "call"
    /\ \E r \in { getPTS(file, 0) } :
          /\ pc' = IF r.raised THEN "raised" ELSE "returned"
          /\ PESPktInfo' = IF r.raised THEN PESPktInfo
                           ELSE [PESPktInfo EXCEPT !.PTS_hi = r.PTS_hi,
                                                   !.PTS_lo = r.PTS_low]
          /\ PTSList' = IF r.raised THEN PTSList
                        ELSE << PTS_MSB24_of([PESPktInfo EXCEPT !.PTS_hi = r.PTS_hi,
                                                                !.PTS_lo = r.PTS_low]) >>
    /\ last' = [NoLast EXCEPT !.path = "getPTS"]
    /\ UNCHANGED << inputs, n, packetCount, EntryPESPacketNumList, TPIList,
                    PIDList, idr_flag, last_SameES_packetNo,
                    last_EntryTPI, PCR, closed, log >>

SpecPTS == InitPTS /\ [][CallGetPTS]_vars

---------------------------------------------------------------------------
(* Properties of the decoders.                                             *)

\* C9: for a PES header with a non-system stream_id that parsePESHeader
\* decodes without running out of bytes, the PTS_DTS_flag is the top two
\* bits of the byte at header_start + 7 (bits 15..14 of the 4-byte field
\* at +5) and the header data length the byte at +8 (its low 8 bits); a
\* PTS is decoded and stored exactly when the flag is 2 or 3, a DTS is
\* decoded exactly when it is 3, and with a flag of 0 or 1 the stored PTS
\* is left as it was.
C9_PTSDTSPresenceByFlag ==
    [][ (pc = "call" /\ ~last'.pes.raised /\ ByteAt(file, 3) \notin SystemStreamIDs)
        => LET flag == ByteAt(file, 7) \div 64
           IN  /\ last'.pes.PTS_DTS_flag = flag
               /\ last'.pes.PES_header_data_length = ByteAt(file, 8)
               /\ last'.pes.hasPTS = (flag \in {2, 3})
               /\ last'.pes.hasDTS = (flag = 3)
               /\ flag \in {2, 3} =>
                     /\ PESPktInfo'.PTS_hi = (ByteAt(file, 9) \div 8) % 2
                     /\ << PESPktInfo'.PTS_hi, PESPktInfo'.PTS_lo >> = last'.pes.PTS
               /\ flag = 3 => last'.pes.DTS[1] = (ByteAt(file, 14) \div 8) % 2
               /\ flag \in {0, 1} =>
                     /\ PESPktInfo'.PTS_hi = PESPktInfo.PTS_hi
                     /\ PESPktInfo'.PTS_lo = PESPktInfo.PTS_lo ]_vars

\* a header with flag 3 decoded over a PESPacketInfo that held an older PTS
C9_Witness ==
    /\ pc = "returned" /\ last.path = "parsePESHeader"
    /\ last.pes.hasPTS /\ last.pes.hasDTS
    /\ last.pes.DTS[1] = 1 /\ PESPktInfo.PTS_hi = 0
    /\ PESPktInfo.PTS_lo # StalePESPacketInfo.PTS_lo
    /\ ByteAt(file, 7) = 193

\* C10: for an adaptation field with length > 0 and bit 4 of the flags
\* set that parseAdaptation_Field decodes without running out of bytes,
\* base_hi is bit 31 of the 4-byte field at start+2, base_lo is twice
\* that field plus bit 15 of the 2-byte field at start+6, all 33 bits of
\* it, and extension is the low 9 bits of the 2-byte field; the field
\* FF FF FF FF FF FF gives base_hi 1, base_lo 0x1FFFFFFFF, extension 0x1FF.
C10_PCRDecode ==
    (pc = "returned" /\ last.path = "parseAdaptation_Field"
       /\ ByteAt(file, 0) > 0 /\ (ByteAt(file, 1) \div 16) % 2 = 1)
    => /\ PCR.PCR_base_hi = ByteAt(file, 2) \div 128
       /\ PCR.PCR_base_lo =
            << (ByteAt(file, 2) * 256 + ByteAt(file, 3)) * 2 + (ByteAt(file, 4) \div 128),
               ((ByteAt(file, 4) % 128) * 256 + ByteAt(file, 5)) * 2
                  + (ByteAt(file, 6) \div 128) >>
       /\ PCR.PCR_extension = (ByteAt(file, 6) % 2) * 256 + ByteAt(file, 7)
       /\ (\A i \in 2..7 : ByteAt(file, i) = 255)
            => PCR = [PCR_base_hi |-> 1, PCR_base_lo |-> << 131071, 65535 >>,
                      PCR_extension |-> 511]

\* the field FF FF FF FF FF FF decoded
C10_Witness ==
    /\ pc = "returned" /\ last.path = "parseAdaptation_Field"
    /\ ByteAt(file, 0) > 0 /\ (ByteAt(file, 1) \div 16) % 2 = 1
    /\ \A i \in 2..7 : ByteAt(file, i) = 255
    /\ PCR.PCR_base_lo = << 131071, 65535 >>

\* the entry of a PAT section that starts at offset 0: its program_number
\* and its PID, from the bytes
PATProgramNumber(i) == ByteAt(file, 4 + 4 * i) * 256 + ByteAt(file, 5 + 4 * i)
PATEntryPID(i) == (ByteAt(file, 6 + 4 * i) % 32) * 256 + ByteAt(file, 7 + 4 * i)

\* C11: for a PAT section (table_id 0) of section_length 9 + 4N that
\* parsePATSection decodes without running out of bytes, the lines after
\* the three header lines are those of exactly N entries in the order of
\* the section: the program_number (top 16 bits of the entry), then the
\* low 13 bits as network_PID when the program_number is 0 and as
\* program_map_PID otherwise, then an empty line.
C11_PATEntries ==
    (pc = "returned" /\ last.path = "parsePATSection" /\ ByteAt(file, 0) = 0)
    => LET N == (ByteAt(file, 2) - 9) \div 4
       IN  /\ Len(log) = 3 + 3 * N
           /\ \A i \in 1..N :
                /\ log[3 * i + 1] = Line("program_number", << PATProgramNumber(i) >>, "")
                /\ log[3 * i + 2] =
                     Line(IF PATProgramNumber(i) = 0 THEN "network_PID" ELSE "program_map_PID",
                          << PATEntryPID(i) >>, "")
                /\ log[3 * i + 3] = Line("", <<>>, "")

\* three entries decoded, the second of them the network PID
C11_Witness ==
    /\ pc = "returned" /\ last.path = "parsePATSection" /\ ByteAt(file, 0) = 0
    /\ Len(log) = 12
    /\ log[5].line = "program_map_PID" /\ log[5].v = << 8191 >>
    /\ log[8].line = "network_PID"
    /\ log[10].v = << 65535 >>

\* the (tag, length) descriptors from offset pos on take exactly left bytes
RECURSIVE SumsExactly(_, _)
SumsExactly(pos, left) ==
    IF left = 0 THEN TRUE
    ELSE IF left < 2 THEN FALSE
    ELSE SumsExactly(pos + 2 + ByteAt(file, pos + 1), left - 2 - ByteAt(file, pos + 1))

\* the 12-bit length in the two bytes at offset pos
Length12At(pos) == (ByteAt(file, pos) % 16) * 256 + ByteAt(file, pos + 1)

StreamLines == SelectSeq(log, LAMBDA x : x.line = "stream")

\* C12: in a PMT section that parsePMTSection decodes without running out
\* of bytes, the program-info loop starts at offset 12 with the announced
\* program_info_length, every ES-info loop starts 5 bytes after its stream
\* entry with the announced ES_info_length, a loop whose descriptors sum
\* to exactly its length L leaves the cursor at loop_start + L whatever
\* the tags, and the stream entry after a loop is read at loop_start + L
\* (also when the descriptors do not sum to L).
C12_DescriptorCursor ==
    (pc = "returned" /\ last.path = "parsePMTSection" /\ ByteAt(file, 0) = 2)
    => /\ Len(last.loops) = Len(StreamLines) + 1
       /\ last.loops[1].start = 12
       /\ last.loops[1].length = Length12At(10)
       /\ \A i \in 1..Len(last.loops) :
            LET loop == last.loops[i]
                next == loop.start + loop.length
            IN  /\ SumsExactly(loop.start, loop.length) => loop.m = next
                /\ i < Len(last.loops)
                   => /\ last.loops[i + 1].start = next + 5
                      /\ last.loops[i + 1].length = Length12At(next + 3)
                      /\ StreamLines[i].v =
                           << ByteAt(file, next),
                              (ByteAt(file, next + 1) % 32) * 256 + ByteAt(file, next + 2),
                              Length12At(next + 3) >>

\* a program-info loop of two descriptors with different tags, then two
\* stream entries, the first with a loop of two descriptors
C12_Witness ==
    /\ pc = "returned" /\ last.path = "parsePMTSection" /\ ByteAt(file, 0) = 2
    /\ Len(last.loops) = 3
    /\ last.loops[1].length = 6 /\ last.loops[1].m = 18
    /\ ByteAt(file, 12) # ByteAt(file, 12 + 2 + ByteAt(file, 13))
    /\ last.loops[2].length = 5 /\ last.loops[2].m = last.loops[2].start + 5
    /\ Len(StreamLines) = 2

\* the unsigned big-endian number of the w bytes at offset pos, as a pair
RawBigEndian(pos, w) ==
    IF w = 1 THEN << 0, ByteAt(file, pos) >>
    ELSE IF w = 2 THEN << 0, ByteAt(file, pos) * 256 + ByteAt(file, pos + 1) >>
    ELSE << ByteAt(file, pos) * 256 + ByteAt(file, pos + 1),
            ByteAt(file, pos + 2) * 256 + ByteAt(file, pos + 3) >>

\* C14: readFile(offset, width) returns the big-endian unsigned integer of
\* the width bytes at offset when at least width bytes remain there, and
\* raises IOError (StreamExhausted) when fewer remain, none or some.
C14_ReadOrStreamExhausted ==
    last.path = "readFile"
    => IF last.offset + last.width <= FileLen(file)
       THEN last.outcome = "value" /\ last.value = RawBigEndian(last.offset, last.width)
       ELSE last.outcome = "IOError"

\* the 4-byte window at offset k is there and is 0x000001xx
WindowMatches(k) ==
    /\ k + 4 <= FileLen(file)
    /\ ByteAt(file, k) = 0 /\ ByteAt(file, k + 1) = 0 /\ ByteAt(file, k + 2) = 1

MatchingWindows == { k \in 0..100 : WindowMatches(k) }

FirstWindow == CHOOSE k \in MatchingWindows : \A j \in MatchingWindows : k <= j

\* C22: when parseIndividualPESPayload returns (every window it looked at
\* could be read), its result is Unknown if no window at offsets 0..100
\* matches 0x000001xx; else, for the first matching window, IDR_picture or
\* non_IDR_picture by the top 3 bits of the byte after the window if the
\* low 5 bits of the window's fourth byte are 9, and no classification
\* (None) if they are not, whatever start codes follow.
C22_FirstStartCodeDecides ==
    (pc = "returned" /\ last.path = "parseIndividualPESPayload")
    => last.outcome =
         IF MatchingWindows = {} THEN "Unknown AU type"
         ELSE IF ByteAt(file, FirstWindow + 3) % 32 = 9
         THEN IF ByteAt(file, FirstWindow + 4) \div 32 = 0
              THEN "IDR_picture" ELSE "non_IDR_picture"
         ELSE "None"

\* a first start code at offset 100 that is not an access unit delimiter,
\* with one that is after it in the stream
C22_Witness ==
    /\ pc = "returned" /\ last.path = "parseIndividualPESPayload"
    /\ FileLen(file) >= 109 /\ MatchingWindows # {}
    /\ FirstWindow = 100 /\ ByteAt(file, 103) % 32 # 9
    /\ ByteAt(file, 105) = 0 /\ ByteAt(file, 106) = 0 /\ ByteAt(file, 107) = 1
    /\ ByteAt(file, 108) = 9
    /\ last.outcome = "None"

\* bit i of a number below 2^31
BitOf(v, i) == (v \div (2 ^ i)) % 2

\* bit i (0..31) of a pair <<high, low>>
PairBit(x, i) == IF i >= 16 THEN BitOf(x[1], i - 16) ELSE BitOf(x[2], i)

\* bit i of ((byte0>>1)&0x3)<<30 | ((word1>>1)&0x7FFF)<<15 | ((word2>>1)&0x7FFF),
\* the three fields read from the bytes of the timestamp
RawPTSBit(i) ==
    IF i >= 30 THEN BitOf(ByteAt(file, 0), i - 30 + 1)
    ELSE IF i >= 15 THEN BitOf(ByteAt(file, 1) * 256 + ByteAt(file, 2), i - 15 + 1)
    ELSE BitOf(ByteAt(file, 3) * 256 + ByteAt(file, 4), i + 1)

\* C23: for a 5-byte timestamp getPTS returns hi = bit 3 of byte0 and a
\* low whose 32 bits are those of the bitwise-OR formula (bits 30..31 from
\* byte0, 15..29 from word1, 0..14 from word2), so the sums of the code
\* carry nothing; low is below 2^32 and PTS_MSB24 is below 2^24.
C23_PTSFields ==
    (pc = "returned" /\ last.path = "getPTS")
    => /\ PESPktInfo.PTS_hi = BitOf(ByteAt(file, 0), 3)
       /\ PESPktInfo.PTS_lo[1] \in 0..65535
       /\ PESPktInfo.PTS_lo[2] \in 0..65535
       /\ \A i \in 0..31 : PairBit(PESPktInfo.PTS_lo, i) = RawPTSBit(i)
       /\ PTSList[1] \in 0..(2 ^ 24 - 1)

\* all 33 bits of the timestamp set
C23_Witness ==
    /\ pc = "returned" /\ last.path = "getPTS"
    /\ PESPktInfo.PTS_hi = 1
    /\ PESPktInfo.PTS_lo = << 65535, 65535 >>
    /\ PTSList = << 2 ^ 24 - 1 >>

=============================================================================
